---- MODULE Spec2Model ----
(***************************************************************************)
(* A model of the docker provider of kind and of two of its actions: the   *)
(* planning of the node containers (planCreation) with the networks they   *)
(* join, Provision and the concurrent runners it and CollectLogs use,      *)
(* ensureNetwork, ListClusters, ListNodes, DeleteNodes, the API-server     *)
(* endpoints, the action pipeline and the status it reports, the kubeadm   *)
(* init action with its port resolution and writeKubeConfig, and the       *)
(* status phases of the create-worker action.                              *)
(***************************************************************************)
EXTENDS Integers, Sequences, FiniteSets, TLC

\* ------------------------------------------------------------------ bounds

\* the longest node list of a cluster configuration
MaxNodes == 2
\* how many ephemeral host ports the host can hand out
MaxFreePorts == 2
\* the longest operation list of a direct call of a runner
MaxFuncs == 3
\* the longest action pipeline
MaxSteps == 3
\* how many times in a row ensureNetwork is called
MaxEnsures == 2
\* the longest list of networks a node declares
MaxNetworks == 3

\* --------------------------------------------------------------- constants

\* common.APIServerInternalPort, the port the API server listens on in a node
APIServerInternalPort == 6443

ControlPlaneRole == "control-plane"
WorkerRole == "worker"
ExternalLoadBalancerNodeRoleValue == "external-load-balancer"

\* the role values a configuration can carry: config.NodeRole is a string, and
\* Provision does not validate the configuration (provider.go, "TODO: validate cfg")
Roles == {ControlPlaneRole, WorkerRole, ExternalLoadBalancerNodeRoleValue}

Addresses == {"0.0.0.0", "127.0.0.1"}
ConfiguredPorts == {0, APIServerInternalPort}
IPFamilies == {"ipv4", "ipv6"}
FreePorts == 40001..(40000 + MaxFreePorts)
\* the node counts CollectLogs is called with
LogNodeCounts == {0, 1}

RECURSIVE SeqsOfLen(_, _)
SeqsOfLen(S, n) ==
    IF n = 0 THEN {<<>>}
    ELSE {Append(s, x) : s \in SeqsOfLen(S, n - 1), x \in S}

SeqsUpTo(S, n) == UNION {SeqsOfLen(S, k) : k \in 0..n}

\* the names a node's networks are drawn from; a list may name one twice
NetworkNames == {"net0", "net1"}

\* config.Node: the fields of a node the provider reads, here of a node that
\* declares no network
Nodes == [role : Roles, networks : {<<>>}]

\* config.Node of a control plane or a worker that declares networks
NetworkedNodes ==
    [role : {ControlPlaneRole, WorkerRole},
     networks : SeqsUpTo(NetworkNames, MaxNetworks) \ {<<>>}]

\* config.Cluster: the fields of a configuration the provider reads. The
\* configurations are those whose nodes declare no network, and those of one
\* node that declares some
Clusters ==
    [nodes : SeqsUpTo(Nodes, MaxNodes),
     address : Addresses,
     port : ConfiguredPorts,
     ipFamily : IPFamilies]
    \cup
    [nodes : SeqsOfLen(NetworkedNodes, 1),
     address : {"127.0.0.1"},
     port : {0},
     ipFamily : {"ipv4"}]

\* a provisioned node as the kubeadm init action sees it: its role and the host
\* port its API-server port is mapped to (0: no mapping)
NodeHandles ==
    [role : {ControlPlaneRole, ExternalLoadBalancerNodeRoleValue}, port : FreePorts]
        \cup [role : {WorkerRole}, port : {0}]

\* the node lists of a cluster, in the order of the nodes' names: Provision
\* creates at most one load balancer
NodeLists ==
    {ns \in SeqsUpTo(NodeHandles, MaxNodes + 1) :
        Cardinality({i \in DOMAIN ns : ns[i].role = ExternalLoadBalancerNodeRoleValue}) <= 1}

\* ------------------------------------------------------------------ errors

\* an error value is the list of its causes, each the operation (its index in
\* the submitted list, 0 when it is not a submitted operation's) it comes from
\* and its message; Nil is no error, an aggregate holds several causes
Nil == <<>>
Error(i, m) == <<[op |-> i, msg |-> m]>>

\* the error of a command that exited with a status other than 0
RunError(args, exit) == <<[op |-> 0, msg |-> "exit status", command |-> args, exit |-> exit]>>

\* errors.Wrap(e, m): the message of the operation attempted, the error e kept
\* as its cause
Wrap(e, m) == <<[op |-> e[1].op, msg |-> m, cause |-> e]>>

VARIABLES
    call,      \* the entry point this run exercises
    cfg,       \* the cluster configuration given to Provision
    logNodes,  \* how many nodes CollectLogs is given
    allNodes,  \* the nodes ctx.Nodes() lists for the kubeadm init action
    pc,        \* the position of the calling goroutine
    effects,   \* runtime invocations made by the calling goroutine, in order
    status,    \* the events reported to cli.Status, in order
    plan,      \* what planCreation returned, once it was called
    errs,      \* CollectLogs: the errors of the DumpDir calls
    funcs,     \* the operations handed to a concurrent runner
    tasks,     \* one goroutine per submitted operation
    errCh,     \* the runner's channel: every result sent, in the order sent
    received,  \* how many results UntilErrorConcurrent has received
    runnerRet, \* what the concurrent runner returned, once it has
    portRet,   \* what getAPIServerPort returned, once it was called
    pipeline,  \* the action pipeline: its state, step index and the steps started
    bundle,    \* what writeKubeConfig read from /etc/kubernetes/admin.conf
    dest,      \* the file at the kubeconfig path on the host
    docker,    \* the container runtime: what exists in it, the commands it was given
    endpoint,  \* the endpoint an endpoint query returned
    listed,    \* what ListClusters or ListNodes returned
    deferred,  \* the deferred calls of the create-worker action, in the order deferred
    err        \* the value the entry point returned

\* the arguments of the entry point, which no step changes
inputs == <<call, cfg, logNodes, allNodes>>

vars == <<inputs, pc, effects, status, plan, errs, funcs, tasks,
          errCh, received, runnerRet, portRet, pipeline, bundle, dest, docker, endpoint,
          listed, deferred, err>>

\* the state of the concurrent runners, which the sequential operations leave alone
runnerVars == <<plan, errs, funcs, tasks, errCh, received, runnerRet>>

\* ------------------------------------------------------- planCreation

clusterIsIPv6(c) == c.ipFamily = "ipv6"

\* faulty variant: a load balancer as soon as there is one control plane
clusterHasImplicitLoadBalancer_AtLeastOne(c) ==
    Cardinality({i \in DOMAIN c.nodes : c.nodes[i].role = ControlPlaneRole}) > 0

clusterHasImplicitLoadBalancer(c) ==
    Cardinality({i \in DOMAIN c.nodes : c.nodes[i].role = ControlPlaneRole}) > 1

\* the port the control-plane closures capture
apiServerPort(c) ==
    IF clusterHasImplicitLoadBalancer(c) THEN 0 ELSE c.port

\* faulty variant: the listen address is not forced to loopback
apiServerAddress_Configured(c) == c.address

\* the listen address the control-plane closures capture
apiServerAddress(c) ==
    IF clusterHasImplicitLoadBalancer(c)
    THEN (IF clusterIsIPv6(c) THEN "::1" ELSE "127.0.0.1")
    ELSE c.address

\* faulty variant: the load balancer is given the values planCreation overwrote
loadBalancerFunc_Overwritten(c) ==
    [kind |-> ExternalLoadBalancerNodeRoleValue, node |-> 0,
     port |-> apiServerPort(c), address |-> apiServerAddress(c),
     containerPort |-> APIServerInternalPort]

\* the closure that creates the load balancer: runArgsForLoadBalancer reads the
\* listen address and the port from the configuration
loadBalancerFunc(c) ==
    [kind |-> ExternalLoadBalancerNodeRoleValue, node |-> 0,
     port |-> c.port, address |-> c.address,
     containerPort |-> APIServerInternalPort]

\* the closure of a control-plane node, with the port mapping it appends
controlPlaneFunc(c, i) ==
    [kind |-> ControlPlaneRole, node |-> i,
     port |-> apiServerPort(c), address |-> apiServerAddress(c),
     containerPort |-> APIServerInternalPort]

\* the closure of a worker adds no API-server port mapping
workerFunc(c, i) ==
    [kind |-> WorkerRole, node |-> i, port |-> 0, address |-> "",
     containerPort |-> 0]

\* faulty variant: the closures are collected in reverse order
RECURSIVE planNodes_Prepend(_, _, _)
planNodes_Prepend(c, i, createContainerFuncs) ==
    IF i > Len(c.nodes) THEN [funcs |-> createContainerFuncs, err |-> Nil]
    ELSE IF c.nodes[i].role = ControlPlaneRole
         THEN planNodes_Prepend(c, i + 1, <<controlPlaneFunc(c, i)>> \o createContainerFuncs)
    ELSE IF c.nodes[i].role = WorkerRole
         THEN planNodes_Prepend(c, i + 1, <<workerFunc(c, i)>> \o createContainerFuncs)
    ELSE [funcs |-> <<>>, err |-> Error(0, "unknown node role")]

\* faulty variant: a node of unknown role is skipped
RECURSIVE planNodes_SkipUnknown(_, _, _)
planNodes_SkipUnknown(c, i, createContainerFuncs) ==
    IF i > Len(c.nodes) THEN [funcs |-> createContainerFuncs, err |-> Nil]
    ELSE IF c.nodes[i].role = ControlPlaneRole
         THEN planNodes_SkipUnknown(c, i + 1, Append(createContainerFuncs, controlPlaneFunc(c, i)))
    ELSE IF c.nodes[i].role = WorkerRole
         THEN planNodes_SkipUnknown(c, i + 1, Append(createContainerFuncs, workerFunc(c, i)))
    ELSE planNodes_SkipUnknown(c, i + 1, createContainerFuncs)

\* the loop over cfg.Nodes: nil and an error at the first unknown role
RECURSIVE planNodes(_, _, _)
planNodes(c, i, createContainerFuncs) ==
    IF i > Len(c.nodes) THEN [funcs |-> createContainerFuncs, err |-> Nil]
    ELSE IF c.nodes[i].role = ControlPlaneRole
         THEN planNodes(c, i + 1, Append(createContainerFuncs, controlPlaneFunc(c, i)))
    ELSE IF c.nodes[i].role = WorkerRole
         THEN planNodes(c, i + 1, Append(createContainerFuncs, workerFunc(c, i)))
    ELSE [funcs |-> <<>>, err |-> Error(0, "unknown node role")]

\* getProxyEnv: with proxy variables set it inspects the bridge network
getProxyEnv(proxySet, inspectOK) ==
    IF proxySet /\ ~inspectOK THEN Error(0, "failed to get subnets") ELSE Nil

commonArgs(proxySet, inspectOK) ==
    IF getProxyEnv(proxySet, inspectOK) # Nil
    THEN Error(0, "proxy setup error")
    ELSE Nil

planCreation(c, proxySet, inspectOK) ==
    IF commonArgs(proxySet, inspectOK) # Nil
    THEN [funcs |-> <<>>, err |-> commonArgs(proxySet, inspectOK)]
    ELSE planNodes(c, 1,
            IF clusterHasImplicitLoadBalancer(c)
            THEN <<loadBalancerFunc(c)>> ELSE <<>>)

\* common.PortOrGetFreePort: the ports it can return, 0 standing for its error.
\* A port other than 0 is returned as it is; port 0 asks the host for a free one
PortOrGetFreePort(port) ==
    IF port # 0 THEN {port} ELSE FreePorts \cup {0}

\* --------------------------------------------------------- getAPIServerPort

\* nodes.ExternalLoadBalancerNode: the load balancer of the node list, 0 (nil)
\* when there is none, an error when the nodes' roles cannot be read
ExternalLoadBalancerNode(ns, ok) ==
    LET lbs == {i \in DOMAIN ns : ns[i].role = ExternalLoadBalancerNodeRoleValue} IN
    IF ~ok THEN [node |-> 0, err |-> Error(0, "failed to select the load balancer")]
    ELSE IF lbs = {} THEN [node |-> 0, err |-> Nil]
    ELSE [node |-> CHOOSE i \in lbs : TRUE, err |-> Nil]

\* nodes.BootstrapControlPlaneNode: the first control plane by name, an error
\* when there is none or the nodes' roles cannot be read
BootstrapControlPlaneNode(ns, ok) ==
    LET cps == {i \in DOMAIN ns : ns[i].role = ControlPlaneRole} IN
    IF ~ok \/ cps = {}
    THEN [node |-> 0, err |-> Error(0, "failed to select the bootstrap control plane")]
    ELSE [node |-> CHOOSE i \in cps : \A j \in cps : i <= j, err |-> Nil]

\* node.Ports(containerPort): the host port the node's port is mapped to
Ports(ns, n, ok) ==
    IF ok THEN [port |-> ns[n].port, err |-> Nil, node |-> n]
    ELSE [port |-> 0, err |-> Error(0, "failed to get the port mapping"), node |-> n]

\* faulty variant: the bootstrap control plane is tried before the load balancer
getAPIServerPort_BootstrapFirst(ns, lbOK, cpOK, portsOK) ==
    LET cp == BootstrapControlPlaneNode(ns, cpOK)
        lb == ExternalLoadBalancerNode(ns, lbOK) IN
    IF cp.err = Nil THEN Ports(ns, cp.node, portsOK)
    ELSE IF lb.err # Nil \/ lb.node = 0 THEN [port |-> 0, err |-> cp.err, node |-> 0]
    ELSE Ports(ns, lb.node, portsOK)

\* getAPIServerPort: the port, the error, and the node whose mapping was read
getAPIServerPort(ns, lbOK, cpOK, portsOK) ==
    LET lb == ExternalLoadBalancerNode(ns, lbOK)
        cp == BootstrapControlPlaneNode(ns, cpOK) IN
    IF lb.err # Nil THEN [port |-> 0, err |-> lb.err, node |-> 0]
    ELSE IF lb.node # 0 THEN Ports(ns, lb.node, portsOK)
    ELSE IF cp.err # Nil THEN [port |-> 0, err |-> cp.err, node |-> 0]
    ELSE Ports(ns, cp.node, portsOK)

\* ---------------------------------------------------------- ensureNetwork

\* constants.ClusterLabelKey=<cluster>, the label commonArgs gives every node
ClusterLabel == "io.k8s.sigs.kind.cluster=kind"

\* fixedNetworkName, the network Provision ensures
NetworkName == "kind"

\* a network of the runtime: its name and what tells it from another network
\* of the same name (0: it was there before; else the place in the log of the
\* command that created it)
Network(name, id) == [name |-> name, id |-> id]

NetworksNamed(d, name) == {k \in DOMAIN d.networks : d.networks[k].name = name}

\* faulty variant: the network is never found
IsNetworkExist_NeverFound(d, networkName, daemonOK) ==
    [exists |-> FALSE,
     docker |-> [d EXCEPT !.log = Append(@,
                    [cmd |-> "docker", args |-> <<"network", "inspect", networkName>>,
                     exit |-> 1, reason |-> "no such network"])]]

\* IsNetworkExist: docker network inspect name; every failure of the command,
\* whatever its cause, is taken for the absence of the network
IsNetworkExist(d, networkName, daemonOK) ==
    LET found == NetworksNamed(d, networkName) # {}
        exit == IF daemonOK /\ found THEN 0 ELSE 1
        reason == IF exit = 0 THEN ""
                  ELSE IF found THEN "daemon error" ELSE "no such network"
    IN  [exists |-> (exit = 0),
         docker |-> [d EXCEPT !.log = Append(@,
                        [cmd |-> "docker", args |-> <<"network", "inspect", networkName>>,
                         exit |-> exit, reason |-> reason])]]

\* CreateNetwork: docker network create --driver=bridge --label=... name; docker
\* refuses to create a network of a name that a network already has
CreateNetwork(d, networkName, daemonOK) ==
    LET args == <<"network", "create", "--driver=bridge", "--label=" \o ClusterLabel,
                  networkName>>
        conflict == NetworksNamed(d, networkName) # {}
        exit == IF daemonOK /\ ~conflict THEN 0 ELSE 1
        reason == IF exit = 0 THEN ""
                  ELSE IF daemonOK THEN "network already exists" ELSE "daemon error"
    IN  [err |-> IF exit = 0 THEN Nil ELSE Error(0, "docker network create error"),
         docker |-> [containers |-> d.containers,
                     networks |-> IF exit = 0
                                  THEN Append(d.networks, Network(networkName, Len(d.log) + 1))
                                  ELSE d.networks,
                     log |-> Append(d.log, [cmd |-> "docker", args |-> args,
                                            exit |-> exit, reason |-> reason])]]

\* ensureNetwork: the network is created unless the existence check finds it
ensureNetwork(d, networkName, inspectOK, createOK) ==
    LET e == IsNetworkExist(d, networkName, inspectOK) IN
    IF e.exists THEN [err |-> Nil, docker |-> e.docker]
    ELSE CreateNetwork(e.docker, networkName, createOK)

\* a call of ensureNetwork, after the ones that returned nil
EnsureNetworkAgain ==
    /\ call = "ensureNetwork" /\ pc = "start"
    /\ Len(effects) < MaxEnsures
    /\ effects' = Append(effects, "network ensure")
    /\ \E inspectOK \in BOOLEAN, createOK \in BOOLEAN :
          LET r == ensureNetwork(docker, NetworkName, inspectOK, createOK) IN
          /\ docker' = r.docker
          /\ err' = r.err
          /\ pc' = IF r.err # Nil \/ Len(effects') = MaxEnsures
                   THEN "returned" ELSE "start"
    /\ UNCHANGED <<inputs, listed, deferred, endpoint, pipeline, bundle, dest, portRet, status, runnerVars>>

\* ---------------------------------------------------------- writeKubeConfig

\* ctx.ClusterContext.Name(), the name of the cluster entry kubeadm writes
ClusterName == "kind"
\* the names of the cluster entries of a kubeconfig, in sorting order
ClusterNames == <<"kind", "other">>

\* the server kubeadm writes: the address of the node in the docker network
InternalServer == [scheme |-> "https", host |-> "10.0.0.5", port |-> APIServerInternalPort]

\* fmt.Sprintf("https://localhost:%d", hostPort)
Localhost(hostPort) == [scheme |-> "https", host |-> "localhost", port |-> hostPort]

\* a cluster entry of a kubeconfig file: its name and its fields
NamedCluster(n) == [name |-> n, server |-> InternalServer, ca |-> "ca of " \o n]

\* no file, a file that is not a kubeconfig, and the output of a failed cat
NoFile == [kind |-> "no file"]
Garbage == [kind |-> "garbage"]
NotRead == [kind |-> "not read"]
ReadFailed == [kind |-> "read failed"]

\* a kubeconfig file: its cluster entries in the order of the file, and the rest
KubeConfigFile(cs) ==
    [kind |-> "kubeconfig", clusters |-> cs, user |-> "kubernetes-admin"]

\* the contents /etc/kubernetes/admin.conf can have: entries of distinct names
AdminConfs ==
    {Garbage} \cup
    {KubeConfigFile(cs) : cs \in
        {<<>>, <<NamedCluster("kind")>>, <<NamedCluster("other")>>,
         <<NamedCluster("kind"), NamedCluster("other")>>,
         <<NamedCluster("other"), NamedCluster("kind")>>}}

\* clientcmd.Load: the entries of the file become a map from their names
Load(buff) ==
    IF buff.kind # "kubeconfig"
    THEN [err |-> Error(0, "failed to load kubeconfig file"),
          clusters |-> <<>>, user |-> ""]
    ELSE [err |-> Nil,
          clusters |->
              [n \in {buff.clusters[k].name : k \in DOMAIN buff.clusters} |->
                  LET k == CHOOSE k \in DOMAIN buff.clusters : buff.clusters[k].name = n
                  IN  [server |-> buff.clusters[k].server, ca |-> buff.clusters[k].ca]],
          user |-> buff.user]

\* faulty variant: the server of every cluster entry is swapped
setServer_EveryCluster(config, clusterName, hostPort) ==
    [config EXCEPT !.clusters =
        [n \in DOMAIN config.clusters |->
            [config.clusters[n] EXCEPT !.server = Localhost(hostPort)]]]

\* config.Clusters[clusterName].Server = "https://localhost:<hostPort>"
setServer(config, clusterName, hostPort) ==
    [config EXCEPT !.clusters[clusterName].server = Localhost(hostPort)]

\* clientcmd.WriteToFile: the map is written as a list of named entries, in the
\* sorting order of their names
WriteToFile(config) ==
    LET names == SelectSeq(ClusterNames, LAMBDA n : n \in DOMAIN config.clusters) IN
    [kind |-> "kubeconfig",
     clusters |-> [k \in DOMAIN names |->
                     [name |-> names[k],
                      server |-> config.clusters[names[k]].server,
                      ca |-> config.clusters[names[k]].ca]],
     user |-> config.user]

\* writeKubeConfig: what it returns, the file it writes (NoFile: none), and
\* whether it panics, for what cat gave (buff) and the outcome of the write.
\* config.Clusters[clusterName] of a name the map lacks is a nil pointer, and
\* the assignment through it is a nil pointer dereference
writeKubeConfig(buff, hostPort, clusterName, writeOK) ==
    IF buff = ReadFailed
    THEN [err |-> Error(0, "failed to get kubeconfig from node"),
          file |-> NoFile, panic |-> FALSE]
    ELSE IF Load(buff).err # Nil
    THEN [err |-> Load(buff).err, file |-> NoFile, panic |-> FALSE]
    ELSE IF clusterName \notin DOMAIN Load(buff).clusters
    THEN [err |-> Nil, file |-> NoFile, panic |-> TRUE]
    ELSE IF ~writeOK
    THEN [err |-> Error(0, "failed to write kubeconfig"),
          file |-> NoFile, panic |-> FALSE]
    ELSE [err |-> Nil,
          file |-> WriteToFile(setServer(Load(buff), clusterName, hostPort)),
          panic |-> FALSE]

\* ------------------------------------------------------ concurrent runners

\* faulty variants: the other runner is called
ProvisionRunner_Aggregate == "AggregateConcurrent"
CollectLogsRunner_UntilError == "UntilErrorConcurrent"

\* the runner Provision hands createContainerFuncs to
ProvisionRunner == "UntilErrorConcurrent"

\* the runner CollectLogs hands fns to
CollectLogsRunner == "AggregateConcurrent"

runner ==
    IF call = "Provision" THEN ProvisionRunner
    ELSE IF call = "CollectLogs" THEN CollectLogsRunner
    ELSE call

\* the failures of the operations, in the order the operations were submitted
RECURSIVE collectErrors(_, _)
collectErrors(t, i) ==
    IF i > Len(t) THEN <<>> ELSE t[i].err \o collectErrors(t, i + 1)

\* ------------------------------------------------------------------- Init

NoConfig == [nodes |-> <<>>, address |-> "127.0.0.1", port |-> 0, ipFamily |-> "ipv4"]
NoPlan == [called |-> FALSE, funcs |-> <<>>, err |-> Nil]
NoReturn == [returned |-> FALSE, err |-> Nil]
NoPort == [called |-> FALSE, port |-> 0, err |-> Nil, node |-> 0]
\* the "" an endpoint query returns with an error
NoEndpoint == [host |-> "", port |-> 0]

\* a container runtime with nothing in it
NoDocker == [containers |-> {}, networks |-> <<>>, log |-> <<>>]
\* the containers of a runtime that holds nodes of several clusters: the name
\* of each and the value of its cluster label
LabelledContainers(labels) == {[name |-> i, cluster |-> labels[i]] : i \in DOMAIN labels}

NoPipeline ==
    [state |-> "Pending", steps |-> 0, stepIndex |-> 0, running |-> FALSE,
     started |-> <<>>, cause |-> Nil]

\* the operations of a direct call of a runner
Func(i) == [kind |-> "func", node |-> i, port |-> 0, address |-> "", containerPort |-> 0]

\* the fns of CollectLogs: docker info, then three per node
RECURSIVE collectLogsFuncs(_)
collectLogsFuncs(n) ==
    IF n = 0
    THEN <<[kind |-> "docker info", node |-> 0, port |-> 0, address |-> "", containerPort |-> 0]>>
    ELSE collectLogsFuncs(n - 1) \o
         <<[kind |-> "collect logs", node |-> n, port |-> 0, address |-> "", containerPort |-> 0],
           [kind |-> "docker inspect", node |-> n, port |-> 0, address |-> "", containerPort |-> 0],
           [kind |-> "serial log", node |-> n, port |-> 0, address |-> "", containerPort |-> 0]>>

InitCommon ==
    /\ effects = <<>>
    /\ status = <<>>
    /\ plan = NoPlan
    /\ errs = <<>>
    /\ tasks = <<>>
    /\ errCh = <<>>
    /\ received = 0
    /\ runnerRet = NoReturn
    /\ portRet = NoPort
    /\ bundle = NotRead
    /\ dest = NoFile
    /\ endpoint = NoEndpoint
    /\ listed = <<>>
    /\ deferred = <<>>
    /\ err = Nil

\* the entry points other than the action pipeline
InitNoPipeline == pipeline = NoPipeline

InitProvision ==
    /\ call = "Provision"
    /\ docker = NoDocker
    /\ InitNoPipeline
    /\ cfg \in Clusters
    /\ logNodes = 0
    /\ allNodes = <<>>
    /\ funcs = <<>>
    /\ pc = "start"

InitCollectLogs ==
    /\ call = "CollectLogs"
    /\ docker = NoDocker
    /\ InitNoPipeline
    /\ cfg = NoConfig
    /\ logNodes \in LogNodeCounts
    /\ allNodes = <<>>
    /\ funcs = <<>>
    /\ pc = "start"

\* a direct call of AggregateConcurrent with n operations
InitAggregateConcurrent ==
    /\ call = "AggregateConcurrent"
    /\ docker = NoDocker
    /\ InitNoPipeline
    /\ cfg = NoConfig
    /\ logNodes = 0
    /\ allNodes = <<>>
    /\ \E n \in 0..MaxFuncs : funcs = [i \in 1..n |-> Func(i)]
    /\ pc = "planned"

\* the kubeadm init action on the nodes of a cluster
InitExecute ==
    /\ call = "Execute"
    /\ docker = NoDocker
    /\ InitNoPipeline
    /\ cfg = NoConfig
    /\ logNodes = 0
    /\ allNodes \in NodeLists
    /\ funcs = <<>>
    /\ pc = "start"

\* calls of ensureNetwork in a row, with or without a network of the name or
\* of another name there before
InitEnsureNetwork ==
    /\ call = "ensureNetwork"
    /\ InitNoPipeline
    /\ cfg = NoConfig
    /\ logNodes = 0
    /\ allNodes = <<>>
    /\ \E before \in SUBSET {NetworkName, "bridge"} :
          docker = [NoDocker EXCEPT !.networks =
                       SelectSeq(<<Network("bridge", 0), Network(NetworkName, 0)>>,
                                 LAMBDA n : n.name \in before)]
    /\ funcs = <<>>
    /\ pc = "start"

\* an endpoint query on a cluster of these nodes
InitGetAPIServerInternalEndpoint ==
    /\ call = "GetAPIServerInternalEndpoint"
    /\ InitNoPipeline
    /\ cfg = NoConfig
    /\ logNodes = 0
    /\ allNodes \in NodeLists
    /\ docker = [NoDocker EXCEPT !.containers = DOMAIN allNodes]
    /\ funcs = <<>>
    /\ pc = "start"

\* GetAPIServerEndpoint on a cluster of these nodes
InitGetAPIServerEndpoint ==
    /\ call = "GetAPIServerEndpoint"
    /\ InitNoPipeline
    /\ cfg = NoConfig
    /\ logNodes = 0
    /\ allNodes \in NodeLists
    /\ docker = [NoDocker EXCEPT !.containers = DOMAIN allNodes]
    /\ funcs = <<>>
    /\ pc = "start"

\* ListClusters or ListNodes on a runtime that holds nodes of up to two clusters
InitList ==
    /\ call \in {"ListClusters", "ListNodes"}
    /\ InitNoPipeline
    /\ cfg = NoConfig
    /\ logNodes = 0
    /\ allNodes = <<>>
    /\ \E labels \in SeqsUpTo({"kind", "other"}, MaxNodes + 1) :
          docker = [NoDocker EXCEPT !.containers = LabelledContainers(labels)]
    /\ funcs = <<>>
    /\ pc = "start"

\* the create-worker action on a created cluster
InitCreateWorker ==
    /\ call = "CreateWorker"
    /\ docker = NoDocker
    /\ InitNoPipeline
    /\ cfg = NoConfig
    /\ logNodes = 0
    /\ allNodes = <<>>
    /\ funcs = <<>>
    /\ pc = "start"

\* DeleteNodes on a list of nodes of which some may no longer exist
InitDeleteNodes ==
    /\ call = "DeleteNodes"
    /\ InitNoPipeline
    /\ cfg = NoConfig
    /\ logNodes = 0
    /\ \E k \in 0..(MaxNodes + 1) : allNodes = [i \in 1..k |-> [role |-> WorkerRole, port |-> 0]]
    /\ \E existing \in SUBSET (DOMAIN allNodes) :
          docker = [NoDocker EXCEPT !.containers = existing]
    /\ funcs = <<>>
    /\ pc = "start"

\* a run of the action pipeline over n steps
InitPipeline ==
    /\ call = "Pipeline"
    /\ docker = NoDocker
    /\ cfg = NoConfig
    /\ logNodes = 0
    /\ allNodes = <<>>
    /\ funcs = <<>>
    /\ pc = "start"
    /\ \E n \in 1..MaxSteps : pipeline = [NoPipeline EXCEPT !.steps = n]

Init ==
    /\ InitCommon
    /\ \/ InitProvision
       \/ InitCollectLogs
       \/ InitAggregateConcurrent
       \/ InitExecute
       \/ InitPipeline
       \/ InitDeleteNodes
       \/ InitEnsureNetwork
       \/ InitGetAPIServerInternalEndpoint
       \/ InitGetAPIServerEndpoint
       \/ InitList
       \/ InitCreateWorker

\* --------------------------------------------------------------- cli.Status

\* cli.Status: a status is in progress from its start event to its end event
InProgress(s) == s # <<>> /\ s[Len(s)].event = "start"

\* Status.End(ok): the end of the status in progress is reported; with none in
\* progress nothing is
StatusEnd(s, ok) ==
    IF InProgress(s) THEN Append(s, [s[Len(s)] EXCEPT !.event = "end", !.ok = ok]) ELSE s

\* Status.Start(label): the start of the status named label is reported
StatusStart(s, label) == Append(s, [event |-> "start", ok |-> TRUE, phase |-> label])

\* ------------------------------------------------------------- Provision

\* ensureNodeImages(p.logger, status, cfg)
EnsureNodeImages ==
    /\ call = "Provision" /\ pc = "start"
    /\ effects' = Append(effects, "image pull")
    /\ \E ok \in BOOLEAN :
          IF ok THEN pc' = "images ensured" /\ err' = err
          ELSE pc' = "returned" /\ err' = Error(0, "failed to pull image")
    /\ UNCHANGED <<inputs, listed, deferred, endpoint, docker, pipeline, bundle, dest, portRet, status, plan, errs, funcs, tasks, errCh,
                   received, runnerRet>>

\* ensureNetwork(networkName)
EnsureNetwork ==
    /\ call = "Provision" /\ pc = "images ensured"
    /\ effects' = Append(effects, "network ensure")
    /\ \E inspectOK \in BOOLEAN, createOK \in BOOLEAN :
          LET r == ensureNetwork(docker, NetworkName, inspectOK, createOK) IN
          /\ docker' = r.docker
          /\ IF r.err = Nil THEN pc' = "network ensured" /\ err' = err
             ELSE pc' = "returned" /\ err' = Error(0, "failed to ensure docker network")
    /\ UNCHANGED <<inputs, listed, deferred, endpoint, pipeline, bundle, dest, portRet, status, plan, errs, funcs, tasks, errCh,
                   received, runnerRet>>

\* faulty variant: the deferred call ends the status with success whatever
\* Provision returns
Plan_EndsWithSuccess ==
    /\ call = "Provision" /\ pc = "network ensured"
    /\ \E proxySet \in BOOLEAN, inspectOK \in BOOLEAN :
          LET p == planCreation(cfg, proxySet, inspectOK) IN
          /\ effects' = IF proxySet THEN Append(effects, "network inspect") ELSE effects
          /\ plan' = [called |-> TRUE, funcs |-> p.funcs, err |-> p.err]
          /\ IF p.err # Nil
             THEN /\ pc' = "returned"
                  /\ err' = p.err
                  /\ status' = StatusEnd(Append(status, [event |-> "start", ok |-> TRUE]),
                                         TRUE)
             ELSE /\ pc' = "planned"
                  /\ err' = err
                  /\ status' = Append(status, [event |-> "start", ok |-> TRUE])
    /\ UNCHANGED <<inputs, listed, deferred, endpoint, docker, pipeline, bundle, dest, portRet,
                   errs, funcs, tasks, errCh, received, runnerRet>>

\* status.Start("Preparing nodes"), the deferred status.End(err == nil), then
\* planCreation
Plan ==
    /\ call = "Provision" /\ pc = "network ensured"
    /\ \E proxySet \in BOOLEAN, inspectOK \in BOOLEAN :
          LET p == planCreation(cfg, proxySet, inspectOK) IN
          /\ effects' = IF proxySet THEN Append(effects, "network inspect") ELSE effects
          /\ plan' = [called |-> TRUE, funcs |-> p.funcs, err |-> p.err]
          /\ IF p.err # Nil
             THEN /\ pc' = "returned"
                  /\ err' = p.err
                  /\ status' = StatusEnd(Append(status, [event |-> "start", ok |-> TRUE]),
                                         p.err = Nil)
             ELSE /\ pc' = "planned"
                  /\ err' = err
                  /\ status' = Append(status, [event |-> "start", ok |-> TRUE])
    /\ UNCHANGED <<inputs, listed, deferred, endpoint, docker, pipeline, bundle, dest, portRet,
                   errs, funcs, tasks, errCh, received, runnerRet>>

\* ----------------------------------------------------------- CollectLogs

\* the loop over the nodes: DumpDir of each node, its error kept, and the fns
DumpDirs ==
    /\ call = "CollectLogs" /\ pc = "start"
    /\ \E failed \in SUBSET (1..logNodes) :
          errs' = [i \in 1..Cardinality(failed) |-> [op |-> 0, msg |-> "DumpDir error"]]
    /\ funcs' = collectLogsFuncs(logNodes)
    /\ pc' = "planned"
    /\ UNCHANGED <<inputs, listed, deferred, endpoint, docker, pipeline, bundle, dest, portRet, effects, status, plan, tasks, errCh,
                   received, runnerRet, err>>

\* ------------------------------------------- kubeadminit action.Execute

\* a return of Execute with e, the calls so far having left the status s: the
\* deferred ctx.Status.End(false) runs
ExecuteReturns(e, s) ==
    /\ pc' = "returned"
    /\ err' = e
    /\ status' = StatusEnd(s, FALSE)

\* ctx.Status.Start, ctx.Nodes() and nodes.BootstrapControlPlaneNode(allNodes)
ExecuteStart ==
    /\ call = "Execute" /\ pc = "start"
    /\ \E nodesOK \in BOOLEAN, cpOK \in BOOLEAN :
          IF ~nodesOK
          THEN ExecuteReturns(Error(0, "failed to list nodes"),
                              Append(status, [event |-> "start", ok |-> TRUE]))
          ELSE IF BootstrapControlPlaneNode(allNodes, cpOK).err # Nil
          THEN ExecuteReturns(BootstrapControlPlaneNode(allNodes, cpOK).err,
                              Append(status, [event |-> "start", ok |-> TRUE]))
          ELSE /\ pc' = "kubeadm init"
               /\ status' = Append(status, [event |-> "start", ok |-> TRUE])
               /\ err' = err
    /\ UNCHANGED <<inputs, listed, deferred, endpoint, docker, pipeline, bundle, dest, portRet,
                   effects, runnerVars>>

\* the command kubeadm init runs on the bootstrap control plane
kubeadmInitArgs ==
    <<"kubeadm", "init", "--ignore-preflight-errors=all", "--config=/kind/kubeadm.conf",
      "--skip-token-print", "--v=6">>

\* faulty variant: after kubeadm init the port resolution is skipped
KubeadmInit_SkipsPort ==
    /\ call = "Execute" /\ pc = "kubeadm init"
    /\ effects' = Append(effects, "kubeadm init")
    /\ \E ok \in BOOLEAN :
          IF ok
          THEN pc' = "write kubeconfig" /\ UNCHANGED <<err, status>>
          ELSE ExecuteReturns(Wrap(RunError(kubeadmInitArgs, 1),
                                   "failed to init node with kubeadm"), status)
    /\ UNCHANGED <<inputs, listed, deferred, endpoint, docker, pipeline, bundle, dest, portRet,
                   runnerVars>>

\* faulty variant: a failure of kubeadm init is not returned at once
KubeadmInit_GoesOn ==
    /\ call = "Execute" /\ pc = "kubeadm init"
    /\ effects' = Append(effects, "kubeadm init")
    /\ \E ok \in BOOLEAN :
          /\ pc' = "get port"
          /\ err' = IF ok THEN err
                    ELSE Wrap(RunError(kubeadmInitArgs, 1), "failed to init node with kubeadm")
          /\ status' = status
    /\ UNCHANGED <<inputs, listed, deferred, endpoint, docker, pipeline, bundle, dest, portRet,
                   runnerVars>>

\* kubeadm init on the bootstrap control plane
KubeadmInit ==
    /\ call = "Execute" /\ pc = "kubeadm init"
    /\ effects' = Append(effects, "kubeadm init")
    /\ \E ok \in BOOLEAN :
          IF ok
          THEN pc' = "get port" /\ UNCHANGED <<err, status>>
          ELSE ExecuteReturns(Wrap(RunError(kubeadmInitArgs, 1),
                                   "failed to init node with kubeadm"), status)
    /\ UNCHANGED <<inputs, listed, deferred, endpoint, docker, pipeline, bundle, dest, portRet,
                   runnerVars>>

\* hostPort, err := getAPIServerPort(allNodes)
GetAPIServerPort ==
    /\ call = "Execute" /\ pc = "get port"
    /\ \E lbOK \in BOOLEAN, cpOK \in BOOLEAN, portsOK \in BOOLEAN :
          LET r == getAPIServerPort(allNodes, lbOK, cpOK, portsOK) IN
          /\ portRet' = [called |-> TRUE, port |-> r.port, err |-> r.err, node |-> r.node]
          /\ effects' = IF r.node # 0 THEN Append(effects, "inspect port") ELSE effects
          /\ IF r.err = Nil
             THEN pc' = "write kubeconfig" /\ UNCHANGED <<err, status>>
             ELSE ExecuteReturns(Wrap(r.err, "failed to get kubeconfig from node"), status)
    /\ UNCHANGED <<inputs, listed, deferred, endpoint, docker, pipeline, bundle, dest, runnerVars>>

\* writeKubeConfig(node, kubeConfigPath, hostPort, clusterName); a panic unwinds
\* Execute, whose deferred ctx.Status.End(false) still runs
WriteKubeConfig ==
    /\ call = "Execute" /\ pc = "write kubeconfig"
    /\ effects' = Append(effects, "cat admin.conf")
    /\ \E buff \in AdminConfs \cup {ReadFailed}, writeOK \in BOOLEAN :
          LET r == writeKubeConfig(buff, portRet.port, ClusterName, writeOK) IN
          /\ bundle' = buff
          /\ dest' = IF r.file # NoFile THEN r.file ELSE dest
          /\ IF r.panic
             THEN /\ pc' = "panicked"
                  /\ status' = StatusEnd(status, FALSE)
                  /\ err' = err
             ELSE IF r.err = Nil
             THEN pc' = "taint" /\ UNCHANGED <<err, status>>
             ELSE ExecuteReturns(Wrap(r.err, "failed to get kubeconfig from node"), status)
    /\ UNCHANGED <<inputs, listed, deferred, endpoint, docker, pipeline, portRet, runnerVars>>

\* the command that removes the master taint
taintArgs ==
    <<"kubectl", "--kubeconfig=/etc/kubernetes/admin.conf", "taint", "nodes", "--all",
      "node-role.kubernetes.io/master-">>

\* faulty variant: the taint is removed whatever the number of nodes
RemoveTaint_EveryCluster ==
    /\ call = "Execute" /\ pc = "taint"
    /\ effects' = Append(effects, "remove taint")
    /\ \E ok \in BOOLEAN :
          IF ok
          THEN ExecuteReturns(Nil, StatusEnd(status, TRUE))
          ELSE ExecuteReturns(Wrap(RunError(taintArgs, 1), "failed to remove master taint"),
                              status)
    /\ UNCHANGED <<inputs, listed, deferred, endpoint, docker, pipeline, bundle, dest, portRet,
                   runnerVars>>

\* faulty variant: success is not marked before the return
RemoveTaint_SuccessNotMarked ==
    /\ call = "Execute" /\ pc = "taint"
    /\ effects' = IF Len(allNodes) = 1 THEN Append(effects, "remove taint") ELSE effects
    /\ \E ok \in BOOLEAN :
          IF ok \/ Len(allNodes) # 1
          THEN ExecuteReturns(Nil, status)
          ELSE ExecuteReturns(Wrap(RunError(taintArgs, 1), "failed to remove master taint"),
                              status)
    /\ UNCHANGED <<inputs, listed, deferred, endpoint, docker, pipeline, bundle, dest, portRet,
                   runnerVars>>

\* the removal of the master taint when there is one node, ctx.Status.End(true)
\* and the return of nil
RemoveTaint ==
    /\ call = "Execute" /\ pc = "taint"
    /\ effects' = IF Len(allNodes) = 1 THEN Append(effects, "remove taint") ELSE effects
    /\ \E ok \in BOOLEAN :
          IF ok \/ Len(allNodes) # 1
          THEN ExecuteReturns(Nil, StatusEnd(status, TRUE))
          ELSE ExecuteReturns(Wrap(RunError(taintArgs, 1), "failed to remove master taint"),
                              status)
    /\ UNCHANGED <<inputs, listed, deferred, endpoint, docker, pipeline, bundle, dest, portRet,
                   runnerVars>>

\* ------------------------------------------- createworker action.Execute

\* the deferred calls of Status.End run when Execute returns, the last
\* deferred first; each is given by its argument
RECURSIVE RunDeferred(_, _)
RunDeferred(s, stack) ==
    IF stack = <<>> THEN s
    ELSE RunDeferred(StatusEnd(s, stack[Len(stack)]), SubSeq(stack, 1, Len(stack) - 1))

\* a return of Execute with e, its calls having left the status s and the
\* deferred calls stack
CreateWorkerReturns(e, s, stack) ==
    /\ pc' = "returned"
    /\ err' = e
    /\ status' = RunDeferred(s, stack)
    /\ deferred' = <<>>

\* a phase of Execute from the place at: Status.Start(label), defer
\* Status.End(false), the steps of the phase, of which the first that fails
\* returns its failure, and after the last Status.End(true); the last phase
\* returns nil
Phase(at, label, failures, next) ==
    /\ call = "CreateWorker" /\ pc = at
    /\ \E failed \in 0..Len(failures) :
          LET started == StatusStart(status, label)
              stack == Append(deferred, FALSE) IN
          IF failed # 0
          THEN /\ CreateWorkerReturns(Error(0, failures[failed]), started, stack)
               /\ effects' = effects
          ELSE IF next = "returned"
          THEN /\ CreateWorkerReturns(Nil, StatusEnd(started, TRUE), stack)
               /\ effects' = Append(effects, label)
          ELSE /\ pc' = next
               /\ status' = StatusEnd(started, TRUE)
               /\ deferred' = stack
               /\ err' = err
               /\ effects' = Append(effects, label)
    /\ UNCHANGED <<inputs, listed, endpoint, docker, pipeline, bundle, dest, portRet,
                   runnerVars>>

\* getNode, cluster.GetClusterDescriptor and getSecrets, before any status
GetDescriptorAndSecrets ==
    /\ call = "CreateWorker" /\ pc = "start"
    /\ \E failed \in 0..3 :
          IF failed = 0 THEN pc' = "capx local" /\ err' = err
          ELSE /\ pc' = "returned"
               /\ err' = Error(0, <<"failed to get the node",
                                    "failed to parse cluster descriptor",
                                    "failed to get the secrets">>[failed])
    /\ UNCHANGED <<inputs, listed, deferred, endpoint, docker, pipeline, bundle, dest,
                   portRet, effects, status, runnerVars>>

\* the phase that installs CAPx in the local cluster: installCAPALocal
InstallCAPxLocal ==
    Phase("capx local", "Installing CAPx in local",
          <<"failed to install CAPA in local">>, "manifests")

\* the phase that generates the cluster manifest and writes it in the node
GenerateManifests ==
    Phase("manifests", "Generating worker cluster manifests",
          <<"failed to generate cluster manifests",
            "failed to write the cluster manifests">>, "secrets")

\* os.Stat("./secrets.yml") and, when it fails, the phase that writes the
\* file: Status.Start, defer Status.End(false), createDirectory, writeFile,
\* encryptFile, and after them defer Status.End(true)
GenerateSecretsFile ==
    /\ call = "CreateWorker" /\ pc = "secrets"
    /\ \E found \in BOOLEAN, failed \in 0..3 :
          LET started == StatusStart(status, "Generating secrets file")
              stack == Append(deferred, FALSE) IN
          IF found
          THEN /\ pc' = "worker cluster"
               /\ UNCHANGED <<status, deferred, err, effects>>
          ELSE IF failed # 0
          THEN /\ CreateWorkerReturns(Error(0, <<"failed to create the directory",
                                                 "failed to write the file",
                                                 "failed to encrypt the file">>[failed]),
                                      started, stack)
               /\ effects' = effects
          ELSE /\ pc' = "worker cluster"
               /\ status' = started
               /\ deferred' = Append(stack, TRUE)
               /\ err' = err
               /\ effects' = Append(effects, "Generating secrets file")
    /\ UNCHANGED <<inputs, listed, endpoint, docker, pipeline, bundle, dest, portRet,
                   runnerVars>>

\* the phase that creates the worker cluster: six commands on the node
CreateWorkerCluster ==
    Phase("worker cluster", "Creating the worker cluster",
          <<"failed to create cluster's Namespace",
            "failed to apply manifests",
            "failed to write the MachineHealthCheck manifest",
            "failed to apply the MachineHealthCheck manifest",
            "failed to create the worker Cluster",
            "failed to create the Machines">>, "capx eks")

\* the phase that installs CAPx in the worker cluster: two commands,
\* installCAPAWorker, five commands
InstallCAPxEKS ==
    Phase("capx eks", "Installing CAPx in EKS",
          <<"failed to write the allow-all-egress network policy",
            "failed to get the kubeconfig file",
            "failed to install CAPA in the worker cluster",
            "failed to scale the CAPI Deployment",
            "failed to apply CAPI's NetworkPolicy",
            "failed to apply CAPI's NetworkPolicy",
            "failed to apply CAPI's NetworkPolicy",
            "failed to apply cert-manager's NetworkPolicy">>, "transfer")

\* the phase that moves the management role, and the return of nil
TransferManagementRole ==
    Phase("transfer", "Transfering the management role",
          <<"failed to create manifests Namespace",
            "failed to pivot management role to worker cluster">>, "returned")

\* ------------------------------------------------- API server endpoints

\* node.String() of the nodes of a list: a node's name is its place in the list
NodeNames(n) == [i \in DOMAIN n |-> i]

\* net.JoinHostPort(host, port)
JoinHostPort(host, port) == [host |-> host, port |-> port]

\* ListNodes: docker ps -a, filtered by the cluster label, one name a line
dockerPs(d, ok) ==
    [d EXCEPT !.log = Append(@,
        [cmd |-> "docker",
         args |-> <<"ps", "-a", "--filter", "label=" \o ClusterLabel>>,
         exit |-> IF ok THEN 0 ELSE 1,
         reason |-> IF ok THEN "" ELSE "daemon error"])]

\* nodeutils.APIServerEndpointNode: the load balancer when there is one, else
\* the bootstrap control plane
APIServerEndpointNode(ns, lbOK, cpOK) ==
    LET lb == ExternalLoadBalancerNode(ns, lbOK)
        cp == BootstrapControlPlaneNode(ns, cpOK) IN
    IF lb.err # Nil THEN lb
    ELSE IF lb.node # 0 THEN lb
    ELSE cp

\* ListNodes: the names docker ps prints become node handles; a failure of
\* the command is wrapped
ListNodes(d, names, ok) ==
    LET r == dockerPs(d, ok) IN
    [nodes |-> IF ok THEN names ELSE <<>>,
     err |-> IF ok THEN Nil
             ELSE Wrap(RunError(r.log[Len(r.log)].args, 1), "failed to list clusters"),
     docker |-> r]

\* faulty variant: the port is the host port the node's API-server port is mapped to
internalEndpoint_HostPort(ns, n) == JoinHostPort(NodeNames(ns)[n], ns[n].port)

\* the node's name, which is its hostname, and the port the API server listens
\* on in the node
internalEndpoint(ns, n) == JoinHostPort(NodeNames(ns)[n], APIServerInternalPort)

\* GetAPIServerInternalEndpoint(cluster)
GetAPIServerInternalEndpoint ==
    /\ call = "GetAPIServerInternalEndpoint" /\ pc = "start"
    /\ pc' = "returned"
    /\ \E listOK \in BOOLEAN, lbOK \in BOOLEAN, cpOK \in BOOLEAN :
          LET l == ListNodes(docker, NodeNames(allNodes), listOK)
              n == APIServerEndpointNode(allNodes, lbOK, cpOK) IN
          /\ docker' = l.docker
          /\ IF l.err # Nil
             THEN err' = Wrap(l.err, "failed to list nodes") /\ endpoint' = NoEndpoint
             ELSE IF n.err # Nil
             THEN /\ err' = Wrap(n.err, "failed to get api server endpoint")
                  /\ endpoint' = NoEndpoint
             ELSE err' = Nil /\ endpoint' = internalEndpoint(allNodes, n.node)
    /\ UNCHANGED <<inputs, listed, deferred, pipeline, bundle, dest, portRet, effects, status, runnerVars>>

\* the formats of the two inspections of GetAPIServerEndpoint
LabelFormat == "{{ index .Config.Labels \"desktop.docker.io/ports/6443/tcp\" }}"
PortsFormat == "{{ with (index (index .NetworkSettings.Ports \"6443/tcp\") 0) }}"

\* the value of the desktop label, as in the comment of GetAPIServerEndpoint: a
\* text of the form host:port, which is what JoinHostPort builds
DesktopEndpoint == JoinHostPort("10.0.1.7", APIServerInternalPort)

\* what the inspection of the label can print: a failure of the command, no
\* line, an empty line (NoEndpoint is the text ""), the label's value, or more
\* than one line
LabelOutputs ==
    {[ok |-> FALSE, lines |-> <<>>]} \cup
    {[ok |-> TRUE, lines |-> ls] :
        ls \in {<<>>, <<NoEndpoint>>, <<DesktopEndpoint>>, <<DesktopEndpoint, NoEndpoint>>}}

\* what the inspection of the port mappings of node n can print, a line being
\* given as strings.Split(line, "\t") makes it: a failure of the command, the
\* first host mapping of the port as HostIp and HostPort, or something else
PortOutputs(ns, n) ==
    {[ok |-> FALSE, lines |-> <<>>]} \cup
    {[ok |-> TRUE, lines |-> <<<<a, ns[n].port>>>>] : a \in Addresses} \cup
    {[ok |-> TRUE, lines |-> ls] :
        ls \in {<<>>, <<<<"">>>>, <<<<"127.0.0.1", ns[n].port, "">>>>,
                <<<<"127.0.0.1", ns[n].port>>, <<"0.0.0.0", ns[n].port>>>>}}

\* docker inspect --format format name: the command, and the lines it printed
dockerInspect(d, format, name, out) ==
    [d EXCEPT !.log = Append(@,
        [cmd |-> "docker",
         args |-> <<"inspect", "--format", format, name>>,
         exit |-> IF out.ok THEN 0 ELSE 1,
         reason |-> IF out.ok THEN "" ELSE "daemon error",
         out |-> out.lines])]

\* faulty variant: of several lines the first is taken, of several parts the
\* first two
networkDetails_NoShapeCheck(lines) ==
    IF Len(lines) = 0 \/ Len(lines[1]) < 2
    THEN [endpoint |-> NoEndpoint,
          err |-> Error(0, "network details should only be one line")]
    ELSE [endpoint |-> JoinHostPort(lines[1][1], lines[1][2]), err |-> Nil]

\* the end of GetAPIServerEndpoint: one line of two parts is joined, anything
\* else is an error of its own
networkDetails(lines) ==
    IF Len(lines) # 1
    THEN [endpoint |-> NoEndpoint,
          err |-> Error(0, "network details should only be one line")]
    ELSE IF Len(lines[1]) # 2
    THEN [endpoint |-> NoEndpoint,
          err |-> Error(0, "network details should only be two parts")]
    ELSE [endpoint |-> JoinHostPort(lines[1][1], lines[1][2]), err |-> Nil]

\* faulty variant: the label is not looked at
apiServerEndpoint_NoLabel(d, name, label, ports) ==
    LET d2 == dockerInspect(d, PortsFormat, name, ports) IN
    IF ~ports.ok
    THEN [endpoint |-> NoEndpoint, docker |-> d2,
          err |-> Wrap(RunError(d2.log[Len(d2.log)].args, 1), "failed to get api server port")]
    ELSE [endpoint |-> networkDetails(ports.lines).endpoint, docker |-> d2,
          err |-> networkDetails(ports.lines).err]

\* GetAPIServerEndpoint once the endpoint node is known: the inspection of the
\* label, whose value is returned when it is the one line printed, else the
\* inspection of the port mappings
apiServerEndpoint(d, name, label, ports) ==
    LET d1 == dockerInspect(d, LabelFormat, name, label)
        d2 == dockerInspect(d1, PortsFormat, name, ports) IN
    IF ~label.ok
    THEN [endpoint |-> NoEndpoint, docker |-> d1,
          err |-> Wrap(RunError(d1.log[Len(d1.log)].args, 1), "failed to get api server port")]
    ELSE IF Len(label.lines) = 1 /\ label.lines[1] # NoEndpoint
    THEN [endpoint |-> label.lines[1], docker |-> d1, err |-> Nil]
    ELSE IF ~ports.ok
    THEN [endpoint |-> NoEndpoint, docker |-> d2,
          err |-> Wrap(RunError(d2.log[Len(d2.log)].args, 1), "failed to get api server port")]
    ELSE [endpoint |-> networkDetails(ports.lines).endpoint, docker |-> d2,
          err |-> networkDetails(ports.lines).err]

\* GetAPIServerEndpoint(cluster)
GetAPIServerEndpoint ==
    /\ call = "GetAPIServerEndpoint" /\ pc = "start"
    /\ pc' = "returned"
    /\ \E listOK \in BOOLEAN, lbOK \in BOOLEAN, cpOK \in BOOLEAN :
          LET l == ListNodes(docker, NodeNames(allNodes), listOK)
              n == APIServerEndpointNode(allNodes, lbOK, cpOK) IN
          IF l.err # Nil
          THEN /\ err' = Wrap(l.err, "failed to list nodes")
               /\ endpoint' = NoEndpoint /\ docker' = l.docker
          ELSE IF n.err # Nil
          THEN /\ err' = Wrap(n.err, "failed to get api server endpoint")
               /\ endpoint' = NoEndpoint /\ docker' = l.docker
          ELSE \E label \in LabelOutputs, ports \in PortOutputs(allNodes, n.node) :
                  LET r == apiServerEndpoint(l.docker, NodeNames(allNodes)[n.node], label, ports)
                  IN  err' = r.err /\ endpoint' = r.endpoint /\ docker' = r.docker
    /\ UNCHANGED <<inputs, listed, deferred, pipeline, bundle, dest, portRet, effects, status, runnerVars>>

\* ------------------------------------------------ ListClusters, ListNodes

\* the names of the containers that carry the label of the cluster, one a line
NamesOf(d, cluster) ==
    LET names == {c.name : c \in {x \in d.containers : x.cluster = cluster}} IN
    SelectSeq([i \in 1..(MaxNodes + 1) |-> i], LAMBDA i : i \in names)

\* sets.NewString(lines...).List(): each value once, in sorting order
SortedSet(values) == SelectSeq(ClusterNames, LAMBDA n : n \in values)

\* ListClusters: docker ps -a --filter label=<key> --format <the label's value>
ListClusters(d, ok) ==
    LET args == <<"ps", "-a", "--filter", "label=io.k8s.sigs.kind.cluster",
                  "--format", "{{.Label \"io.k8s.sigs.kind.cluster\"}}">>
        r == [d EXCEPT !.log = Append(@, [cmd |-> "docker", args |-> args,
                                          exit |-> IF ok THEN 0 ELSE 1,
                                          reason |-> IF ok THEN "" ELSE "daemon error"])]
    IN  [clusters |-> IF ok THEN SortedSet({c.cluster : c \in d.containers}) ELSE <<>>,
         err |-> IF ok THEN Nil ELSE Wrap(RunError(args, 1), "failed to list clusters"),
         docker |-> r]

\* a call of ListClusters
CallListClusters ==
    /\ call = "ListClusters" /\ pc = "start"
    /\ pc' = "returned"
    /\ \E ok \in BOOLEAN :
          LET r == ListClusters(docker, ok) IN
          docker' = r.docker /\ err' = r.err /\ listed' = r.clusters
    /\ UNCHANGED <<inputs, deferred, endpoint, pipeline, bundle, dest, portRet, effects, status,
                   runnerVars>>

\* a call of ListNodes for the cluster
CallListNodes ==
    /\ call = "ListNodes" /\ pc = "start"
    /\ pc' = "returned"
    /\ \E ok \in BOOLEAN :
          LET r == ListNodes(docker, NamesOf(docker, ClusterName), ok) IN
          docker' = r.docker /\ err' = r.err /\ listed' = r.nodes
    /\ UNCHANGED <<inputs, deferred, endpoint, pipeline, bundle, dest, portRet, effects, status,
                   runnerVars>>

\* ------------------------------------------------------------ DeleteNodes

\* args of DeleteNodes: rm -f -v and the name of every node
deleteArgs(n) == <<"rm", "-f", "-v">> \o NodeNames(n)

\* docker rm -f -v names: the containers of these names are removed. For a name
\* that no container has, docker before 20.10 prints "No such container" and
\* exits 1, docker since 20.10 exits 0; a daemon that cannot be reached
\* removes nothing and exits 1
dockerRm(d, args, daemonOK, missingFails) ==
    LET names == {args[k] : k \in 4..Len(args)}
        exit == IF ~daemonOK THEN 1
                ELSE IF missingFails /\ ~(names \subseteq d.containers) THEN 1
                ELSE 0
        reason == IF ~daemonOK THEN "daemon error"
                  ELSE IF exit = 1 THEN "no such container" ELSE ""
    IN  [containers |-> IF daemonOK THEN d.containers \ names ELSE d.containers,
         networks |-> d.networks,
         log |-> Append(d.log, [cmd |-> "docker", args |-> args,
                                exit |-> exit, reason |-> reason])]

\* faulty variant: the runtime is invoked for an empty list too
DeleteNodes_NoEmptyCheck ==
    /\ call = "DeleteNodes" /\ pc = "start"
    /\ pc' = "returned"
    /\ \E daemonOK \in BOOLEAN, missingFails \in BOOLEAN :
          /\ docker' = dockerRm(docker, deleteArgs(allNodes), daemonOK, missingFails)
          /\ err' = IF docker'.log[Len(docker'.log)].exit # 0
                    THEN Wrap(RunError(deleteArgs(allNodes), 1), "failed to delete nodes")
                    ELSE Nil
    /\ UNCHANGED <<inputs, listed, deferred, endpoint, pipeline, bundle, dest, portRet, effects, status, runnerVars>>

\* DeleteNodes(n)
DeleteNodes ==
    /\ call = "DeleteNodes" /\ pc = "start"
    /\ pc' = "returned"
    /\ IF Len(allNodes) = 0
       THEN err' = Nil /\ docker' = docker
       ELSE \E daemonOK \in BOOLEAN, missingFails \in BOOLEAN :
               /\ docker' = dockerRm(docker, deleteArgs(allNodes), daemonOK, missingFails)
               /\ err' = IF docker'.log[Len(docker'.log)].exit # 0
                         THEN Wrap(RunError(deleteArgs(allNodes), 1), "failed to delete nodes")
                         ELSE Nil
    /\ UNCHANGED <<inputs, listed, deferred, endpoint, pipeline, bundle, dest, portRet, effects, status, runnerVars>>

\* ------------------------------------------------------ the action pipeline

\* Pending -> Running: the pipeline starts at its first step
PipelineStart ==
    /\ call = "Pipeline" /\ pipeline.state = "Pending"
    /\ pipeline' = [pipeline EXCEPT !.state = "Running", !.stepIndex = 1]
    /\ pc' = "running"
    /\ UNCHANGED <<inputs, listed, deferred, endpoint, docker, bundle, dest, portRet, effects, status, runnerVars, err>>

\* the current step is started: its start event, then its Execute
StepStart ==
    /\ call = "Pipeline" /\ pipeline.state = "Running" /\ ~pipeline.running
    /\ pipeline' = [pipeline EXCEPT !.running = TRUE,
                                    !.started = Append(@, pipeline.stepIndex)]
    /\ status' = Append(status, [event |-> "start", ok |-> TRUE])
    /\ UNCHANGED <<inputs, listed, deferred, endpoint, docker, pc, bundle, dest, portRet, effects, runnerVars, err>>

\* the current step returns: on success the next step, Succeeded after the
\* last one; on an error Failed, and the error goes to the caller
StepEnd ==
    /\ call = "Pipeline" /\ pipeline.state = "Running" /\ pipeline.running
    /\ \E ok \in BOOLEAN :
          /\ status' = StatusEnd(status, ok)
          /\ IF ~ok
             THEN /\ pipeline' = [pipeline EXCEPT !.state = "Failed", !.running = FALSE,
                                     !.cause = Error(pipeline.stepIndex, "step failed")]
                  /\ pc' = "returned"
                  /\ err' = Error(pipeline.stepIndex, "step failed")
             ELSE IF pipeline.stepIndex = pipeline.steps
             THEN /\ pipeline' = [pipeline EXCEPT !.state = "Succeeded", !.running = FALSE]
                  /\ pc' = "returned"
                  /\ err' = Nil
             ELSE /\ pipeline' = [pipeline EXCEPT !.stepIndex = @ + 1, !.running = FALSE]
                  /\ UNCHANGED <<pc, err>>
    /\ UNCHANGED <<inputs, listed, deferred, endpoint, docker, bundle, dest, portRet, effects, runnerVars>>

\* ------------------------------------------------------ the runners' steps

\* the caller hands its operations to the runner: one goroutine per operation
Launch ==
    /\ pc = "planned"
    /\ pc' = "waiting"
    /\ funcs' = IF call = "Provision" THEN plan.funcs ELSE funcs
    /\ tasks' = [i \in 1..Len(funcs') |-> [pc |-> "ready", hostPort |-> 0, err |-> Nil]]
    /\ UNCHANGED <<inputs, listed, deferred, endpoint, docker, pipeline, bundle, dest, portRet, effects, status, plan, errs, errCh,
                   received, runnerRet, err>>

\* a goroutine ends: its result is sent on the buffered channel
Finish(i, e) ==
    /\ tasks' = [tasks EXCEPT ![i] = [pc |-> "done", hostPort |-> 0, err |-> e]]
    /\ errCh' = Append(errCh, [op |-> i, err |-> e])

\* common.PortOrGetFreePort in the closure of the load balancer or of a control plane
GetPort(i) ==
    /\ i \in DOMAIN tasks
    /\ tasks[i].pc = "ready"
    /\ funcs[i].kind \in {ExternalLoadBalancerNodeRoleValue, ControlPlaneRole}
    /\ \E p \in PortOrGetFreePort(funcs[i].port) :
          IF p = 0
          THEN Finish(i, Error(i, "failed to get port for API server"))
          ELSE /\ tasks' = [tasks EXCEPT ![i].pc = "port", ![i].hostPort = p]
               /\ errCh' = errCh
    /\ UNCHANGED <<inputs, listed, deferred, endpoint, docker, pipeline, bundle, dest, portRet, pc, effects, status, plan, errs, funcs,
                   received, runnerRet, err>>

\* node.Networks of the node the operation i creates; the load balancer
\* declares none
NetworksOf(i) ==
    IF funcs[i].kind \in {ControlPlaneRole, WorkerRole}
    THEN cfg.nodes[funcs[i].node].networks
    ELSE <<>>

\* the arguments of docker run that name and label the container of operation
\* i, and --detach, which leaves it running when docker run returns
runArgs(i) == <<"run", "--name", i, "--detach", "--label", ClusterLabel>>

\* runArgsForNode: the first declared network is given to docker run
runArgsForNode(i) ==
    runArgs(i) \o (IF Len(NetworksOf(i)) > 0 THEN <<"--network", NetworksOf(i)[1]>>
                   ELSE <<>>)

\* docker run: the container exists once the command has succeeded
dockerRun(d, args, ok) ==
    [containers |-> IF ok THEN d.containers \cup {args[3]} ELSE d.containers,
     networks |-> d.networks,
     log |-> Append(d.log, [cmd |-> "docker", args |-> args,
                            exit |-> IF ok THEN 0 ELSE 1,
                            reason |-> IF ok THEN "" ELSE "docker run error"])]

\* docker network connect <network> <name>
dockerNetworkConnect(d, network, name, ok) ==
    [containers |-> d.containers,
     networks |-> d.networks,
     log |-> Append(d.log, [cmd |-> "docker",
                            args |-> <<"network", "connect", network, name>>,
                            exit |-> IF ok THEN 0 ELSE 1,
                            reason |-> IF ok THEN "" ELSE "docker network connect error"])]

\* the connections the runtime was asked to make for the container name
ConnectsOf(d, name) ==
    {k \in DOMAIN d.log : /\ d.log[k].args[1] = "network"
                          /\ d.log[k].args[2] = "connect"
                          /\ d.log[k].args[4] = name}

\* the place in node.Networks the loop of connectExtraNetworks has come to:
\* place 1 is skipped, docker run having handled it
NextNetwork(i) == 2 + Cardinality(ConnectsOf(docker, i))

\* faulty variant: a closure is interrupted once the runner has returned
CreateContainer_Interrupted(i) ==
    /\ ~runnerRet.returned
    /\ i \in DOMAIN tasks
    /\ IF funcs[i].kind = WorkerRole
       THEN tasks[i].pc = "ready"
       ELSE tasks[i].pc = "port"
    /\ \E ok \in BOOLEAN :
          /\ docker' = dockerRun(docker, runArgsForNode(i), ok)
          /\ IF ~ok THEN Finish(i, Error(i, "docker run error"))
             ELSE IF Len(NetworksOf(i)) <= 1 THEN Finish(i, Nil)
             ELSE /\ tasks' = [tasks EXCEPT ![i].pc = "created", ![i].hostPort = 0]
                  /\ errCh' = errCh
    /\ UNCHANGED <<inputs, listed, deferred, endpoint, pipeline, bundle, dest, portRet, pc,
                   effects, status, plan, errs, funcs, received, runnerRet, err>>

\* createContainer (docker run) in a closure; the closure returns when docker
\* run failed or connectExtraNetworks has nothing to connect
CreateContainer(i) ==
    /\ i \in DOMAIN tasks
    /\ IF funcs[i].kind = WorkerRole
       THEN tasks[i].pc = "ready"
       ELSE tasks[i].pc = "port"
    /\ \E ok \in BOOLEAN :
          /\ docker' = dockerRun(docker, runArgsForNode(i), ok)
          /\ IF ~ok THEN Finish(i, Error(i, "docker run error"))
             ELSE IF Len(NetworksOf(i)) <= 1 THEN Finish(i, Nil)
             ELSE /\ tasks' = [tasks EXCEPT ![i].pc = "created", ![i].hostPort = 0]
                  /\ errCh' = errCh
    /\ UNCHANGED <<inputs, listed, deferred, endpoint, pipeline, bundle, dest, portRet, pc,
                   effects, status, plan, errs, funcs, received, runnerRet, err>>

\* faulty variant: the loop goes on to the next network after a failure
ConnectNetwork_GoesOn(i) ==
    /\ i \in DOMAIN tasks
    /\ tasks[i].pc = "created"
    /\ \E ok \in BOOLEAN :
          /\ docker' = dockerNetworkConnect(docker, NetworksOf(i)[NextNetwork(i)], i, ok)
          /\ IF NextNetwork(i) = Len(NetworksOf(i))
             THEN Finish(i, IF ok THEN Nil ELSE Error(i, "docker network connect error"))
             ELSE UNCHANGED <<tasks, errCh>>
    /\ UNCHANGED <<inputs, listed, deferred, endpoint, pipeline, bundle, dest, portRet, pc,
                   effects, status, plan, errs, funcs, received, runnerRet, err>>

\* a turn of the loop of connectExtraNetworks in a closure, and the closure's
\* return at the first failure or after the last network
ConnectNetwork(i) ==
    /\ i \in DOMAIN tasks
    /\ tasks[i].pc = "created"
    /\ \E ok \in BOOLEAN :
          /\ docker' = dockerNetworkConnect(docker, NetworksOf(i)[NextNetwork(i)], i, ok)
          /\ IF ~ok THEN Finish(i, Error(i, "docker network connect error"))
             ELSE IF NextNetwork(i) = Len(NetworksOf(i)) THEN Finish(i, Nil)
             ELSE UNCHANGED <<tasks, errCh>>
    /\ UNCHANGED <<inputs, listed, deferred, endpoint, pipeline, bundle, dest, portRet, pc,
                   effects, status, plan, errs, funcs, received, runnerRet, err>>

\* an operation of CollectLogs, or of a direct call of a runner
RunFunc(i) ==
    /\ i \in DOMAIN tasks
    /\ tasks[i].pc = "ready"
    /\ funcs[i].kind \notin Roles
    /\ \E ok \in BOOLEAN :
          Finish(i, IF ok THEN Nil ELSE Error(i, "command failed"))
    /\ UNCHANGED <<inputs, listed, deferred, endpoint, docker, pipeline, bundle, dest, portRet, pc, effects, status, plan, errs, funcs,
                   received, runnerRet, err>>

\* faulty variant: CollectLogs returns nil whatever failed
RunnerReturns_LogsNeverFail(e) ==
    /\ docker' = docker
    /\ runnerRet' = [returned |-> TRUE, err |-> e]
    /\ pc' = "returned"
    /\ status' = IF call = "Provision"
                 THEN StatusEnd(status, e = Nil)
                 ELSE status
    /\ err' = IF call = "CollectLogs" THEN Nil ELSE e

\* faulty variant: Provision removes the containers when an operation failed
RunnerReturns_Rollback(e) ==
    /\ docker' = IF call = "Provision" /\ e # Nil
                 THEN [docker EXCEPT !.containers = {}] ELSE docker
    /\ runnerRet' = [returned |-> TRUE, err |-> e]
    /\ pc' = "returned"
    /\ IF call = "Provision"
       THEN \* return errors.UntilErrorConcurrent(...), and the deferred status.End
            /\ err' = e
            /\ status' = StatusEnd(status, e = Nil)
       ELSE IF call = "CollectLogs"
       THEN \* errors.NewAggregate(append(errs, errors.AggregateConcurrent(fns)))
            /\ err' = errs \o e
            /\ status' = status
       ELSE /\ err' = e
            /\ status' = status

\* the runner returns e to its caller, and the caller returns; nothing is
\* undone
RunnerReturns(e) ==
    /\ docker' = docker
    /\ runnerRet' = [returned |-> TRUE, err |-> e]
    /\ pc' = "returned"
    /\ IF call = "Provision"
       THEN \* return errors.UntilErrorConcurrent(...), and the deferred status.End
            /\ err' = e
            /\ status' = StatusEnd(status, e = Nil)
       ELSE IF call = "CollectLogs"
       THEN \* errors.NewAggregate(append(errs, errors.AggregateConcurrent(fns)))
            /\ err' = errs \o e
            /\ status' = status
       ELSE /\ err' = e
            /\ status' = status

\* the receiving loop of UntilErrorConcurrent: the first failure received is
\* returned, nil once every operation's result was received
UntilErrorConcurrent ==
    /\ pc = "waiting" /\ runner = "UntilErrorConcurrent"
    /\ IF received = Len(funcs)
       THEN RunnerReturns(Nil) /\ received' = received
       ELSE /\ received < Len(errCh)
            /\ received' = received + 1
            /\ IF errCh[received + 1].err # Nil
               THEN RunnerReturns(errCh[received + 1].err)
               ELSE UNCHANGED <<pc, err, status, runnerRet, docker>>
    /\ UNCHANGED <<inputs, listed, deferred, endpoint, pipeline, bundle, dest, portRet, effects, plan, errs, funcs, tasks, errCh>>

\* AggregateConcurrent: once every operation has finished, all the failures
AggregateConcurrent ==
    /\ pc = "waiting" /\ runner = "AggregateConcurrent"
    /\ \A i \in DOMAIN tasks : tasks[i].pc = "done"
    /\ RunnerReturns(collectErrors(tasks, 1))
    /\ UNCHANGED <<inputs, listed, deferred, endpoint, pipeline, bundle, dest, portRet, effects, plan, errs, funcs, tasks, errCh,
                   received>>

Next ==
    \/ GetAPIServerInternalEndpoint
    \/ GetAPIServerEndpoint
    \/ CallListClusters
    \/ CallListNodes
    \/ EnsureNetworkAgain
    \/ DeleteNodes
    \/ PipelineStart
    \/ StepStart
    \/ StepEnd
    \/ EnsureNodeImages
    \/ EnsureNetwork
    \/ Plan
    \/ DumpDirs
    \/ ExecuteStart
    \/ KubeadmInit
    \/ GetAPIServerPort
    \/ WriteKubeConfig
    \/ RemoveTaint
    \/ GetDescriptorAndSecrets
    \/ InstallCAPxLocal
    \/ GenerateManifests
    \/ GenerateSecretsFile
    \/ CreateWorkerCluster
    \/ InstallCAPxEKS
    \/ TransferManagementRole
    \/ Launch
    \/ \E i \in DOMAIN tasks : GetPort(i)
    \/ \E i \in DOMAIN tasks : CreateContainer(i)
    \/ \E i \in DOMAIN tasks : ConnectNetwork(i)
    \/ \E i \in DOMAIN tasks : RunFunc(i)
    \/ UntilErrorConcurrent
    \/ AggregateConcurrent

Spec == Init /\ [][Next]_vars


\* ------------------------------------------------------------- properties

NumControlPlanes ==
    Cardinality({i \in DOMAIN cfg.nodes : cfg.nodes[i].role = "control-plane"})

AllRolesKnown ==
    \A i \in DOMAIN cfg.nodes : cfg.nodes[i].role \in {"control-plane", "worker"}

LoadBalancerOps(fs) == {i \in DOMAIN fs : fs[i].kind = "external-load-balancer"}

ControlPlaneOps(fs) == {i \in DOMAIN fs : fs[i].kind = "control-plane"}

ExpectedLoadBalancers == IF NumControlPlanes > 1 THEN 1 ELSE 0

Loopback == IF cfg.ipFamily = "ipv6" THEN "::1" ELSE "127.0.0.1"

\* C1, as stated: for every configuration planCreation was called with, the
\* list it returned holds exactly one load-balancer operation when there is
\* more than one control-plane node, and none otherwise.
C1_AnyConfiguration ==
    plan.called =>
        Cardinality(LoadBalancerOps(plan.funcs)) = ExpectedLoadBalancers

\* C1, amended: when planCreation returns no error, the list it returns holds
\* exactly one load-balancer operation if there is more than one control-plane
\* node and none otherwise; when it returns an error it returns no operation.
C1_LoadBalancerIffSeveralControlPlanes ==
    plan.called =>
        IF plan.err = Nil
        THEN Cardinality(LoadBalancerOps(plan.funcs)) = ExpectedLoadBalancers
        ELSE plan.funcs = <<>>

C1_Witness ==
    /\ plan.called /\ plan.err = Nil
    /\ NumControlPlanes = 2
    /\ Cardinality(LoadBalancerOps(plan.funcs)) = 1

\* the list planCreation returns for a configuration of known roles: the
\* load balancer first when there is one, then one operation per node in the
\* order of cfg.Nodes
PlannedInOrder(fs) ==
    /\ Len(fs) = Len(cfg.nodes) + ExpectedLoadBalancers
    /\ ExpectedLoadBalancers = 1 => fs[1].kind = "external-load-balancer"
    /\ \A i \in DOMAIN cfg.nodes :
          /\ fs[ExpectedLoadBalancers + i].kind = cfg.nodes[i].role
          /\ fs[ExpectedLoadBalancers + i].node = i

\* C2, as stated: for every configuration whose nodes are all control planes
\* or workers, planCreation returns len(nodes) operations, one more when there
\* are several control planes, the load balancer first, then the nodes in order.
C2_AnyKnownConfiguration ==
    (plan.called /\ AllRolesKnown) => PlannedInOrder(plan.funcs)

\* C2, amended: the same, for the calls in which commonArgs succeeds; when it
\* fails (proxy setup error) planCreation returns that error and no operation.
C2_OperationCountAndOrder ==
    (plan.called /\ AllRolesKnown) =>
        IF plan.err = Nil
        THEN PlannedInOrder(plan.funcs)
        ELSE plan.err = Error(0, "proxy setup error") /\ plan.funcs = <<>>

C2_Witness ==
    /\ plan.called /\ plan.err = Nil
    /\ Len(cfg.nodes) = 2 /\ cfg.nodes[1].role = "worker" /\ cfg.nodes[2].role = "control-plane"
    /\ Len(plan.funcs) = 2
    /\ pc = "waiting"

\* C3: the port mapping of a control-plane operation follows the load-balancer
\* decision alone: with several control planes port 0 on the loopback address
\* of the IP family, with one the configured address and port; a port other
\* than 0 becomes the host port as it is and never fails allocation.
C3_ControlPlanePortMapping ==
    /\ \A i \in ControlPlaneOps(plan.funcs) :
          IF NumControlPlanes > 1
          THEN plan.funcs[i].port = 0 /\ plan.funcs[i].address = Loopback
          ELSE plan.funcs[i].port = cfg.port /\ plan.funcs[i].address = cfg.address
    /\ \A i \in DOMAIN tasks :
          funcs[i].kind = "control-plane" =>
              /\ tasks[i].pc = "port" =>
                    IF funcs[i].port # 0
                    THEN tasks[i].hostPort = funcs[i].port
                    ELSE tasks[i].hostPort \in FreePorts
              /\ tasks[i].err = Error(i, "failed to get port for API server")
                    => funcs[i].port = 0

C3_Witness ==
    /\ NumControlPlanes = 2
    /\ cfg.address = "0.0.0.0" /\ cfg.port = 6443 /\ cfg.ipFamily = "ipv6"
    /\ \E i \in DOMAIN tasks :
          /\ funcs[i].kind = "control-plane"
          /\ tasks[i].pc = "port"
          /\ funcs[i].address = "::1"

\* the load balancer's operation publishes the configured address and port
LoadBalancerOwnsBinding ==
    /\ \A i \in LoadBalancerOps(plan.funcs) :
          /\ plan.funcs[i].address = cfg.address
          /\ plan.funcs[i].port = cfg.port
          /\ plan.funcs[i].containerPort = 6443
    /\ \A i \in DOMAIN tasks :
          (funcs[i].kind = "external-load-balancer" /\ tasks[i].pc = "port") =>
              IF cfg.port # 0
              THEN tasks[i].hostPort = cfg.port
              ELSE tasks[i].hostPort \in FreePorts

\* C4, as stated: when a load balancer is planned it publishes the configured
\* address and port, and no control-plane operation requests the configured
\* address or the configured port.
C4_NoControlPlaneRequestsConfigured ==
    LoadBalancerOps(plan.funcs) # {} =>
        /\ LoadBalancerOwnsBinding
        /\ \A i \in ControlPlaneOps(plan.funcs) :
              /\ plan.funcs[i].address # cfg.address
              /\ plan.funcs[i].port # cfg.port

\* C4, amended: when a load balancer is planned it publishes the configured
\* address and port, and every control-plane operation requests port 0 on the
\* loopback address, which is the configured address or port only when the
\* configuration itself names the loopback address or port 0.
C4_LoadBalancerOwnsBinding ==
    LoadBalancerOps(plan.funcs) # {} =>
        /\ LoadBalancerOwnsBinding
        /\ \A i \in ControlPlaneOps(plan.funcs) :
              /\ plan.funcs[i].address = Loopback
              /\ plan.funcs[i].port = 0
              /\ plan.funcs[i].address = cfg.address => cfg.address = Loopback
              /\ plan.funcs[i].port = cfg.port => cfg.port = 0

C4_Witness ==
    /\ cfg.address = "0.0.0.0" /\ cfg.port = 0
    /\ \E i \in DOMAIN tasks :
          /\ funcs[i].kind = "external-load-balancer"
          /\ tasks[i].pc = "port"
          /\ tasks[i].hostPort \in FreePorts
    /\ \E j \in DOMAIN tasks :
          funcs[j].kind = "control-plane" /\ tasks[j].pc = "port"

\* the node whose port mapping is the external API port: the load balancer
\* when the node list has one, else the first control plane, 0 when neither
LoadBalancerNodes == {i \in DOMAIN allNodes : allNodes[i].role = "external-load-balancer"}

ControlPlaneNodes == {i \in DOMAIN allNodes : allNodes[i].role = "control-plane"}

EndpointNode ==
    IF LoadBalancerNodes # {} THEN CHOOSE i \in LoadBalancerNodes : TRUE
    ELSE IF ControlPlaneNodes # {}
    THEN CHOOSE i \in ControlPlaneNodes : \A j \in ControlPlaneNodes : i <= j
    ELSE 0

\* C5: getAPIServerPort reads the port mapping of the load balancer when the
\* node list has one and of the bootstrap control plane otherwise, returns the
\* host port of that mapping, never reads a control plane's mapping while a
\* load balancer exists, and returns port 0 with the error when it cannot
\* select the node.
C5_PortOfLoadBalancerElseBootstrap ==
    portRet.called =>
        /\ portRet.node \in {0, EndpointNode}
        /\ LoadBalancerNodes # {} => portRet.node \notin ControlPlaneNodes
        /\ portRet.err = Nil =>
              /\ portRet.node = EndpointNode /\ portRet.node # 0
              /\ portRet.port = allNodes[portRet.node].port
        /\ portRet.node = 0 => portRet.err # Nil /\ portRet.port = 0

C5_Witness ==
    /\ portRet.called /\ portRet.err = Nil
    /\ Len(allNodes) = 3
    /\ allNodes[1].role = "control-plane" /\ allNodes[1].port = 40001
    /\ allNodes[2].role = "control-plane"
    /\ allNodes[3].role = "external-load-balancer" /\ allNodes[3].port = 40002
    /\ portRet.port = 40002
    /\ pc = "write kubeconfig"

\* C6: with a node of unknown role planCreation returns an error and no
\* operation, Provision returns that error, and nothing was handed to the
\* concurrent runner: no goroutine exists and no result was sent.
C6_UnknownRoleFailsBeforeSubmission ==
    (plan.called /\ ~AllRolesKnown) =>
        /\ plan.err # Nil /\ plan.funcs = <<>>
        /\ pc = "returned" /\ err = plan.err
        /\ funcs = <<>> /\ tasks = <<>> /\ errCh = <<>>
        /\ ~runnerRet.returned

C6_Witness ==
    /\ plan.called /\ pc = "returned"
    /\ Len(cfg.nodes) = 2
    /\ cfg.nodes[1].role = "control-plane"
    /\ cfg.nodes[2].role = "external-load-balancer"
    /\ err = Error(0, "unknown node role")

\* C7, as stated: when Provision fails on a node of unknown role, it has made
\* no runtime invocation: no image pull, no network ensure, no inspection.
C7_NoSideEffectBeforeValidationFailure ==
    (plan.called /\ ~AllRolesKnown /\ pc = "returned") => effects = <<>>

\* C8, as stated: for a configuration without a control-plane node no
\* operation is planned or submitted and Provision does not return success.
C8_NoControlPlaneRejected ==
    (call = "Provision" /\ NumControlPlanes = 0) =>
        /\ plan.funcs = <<>> /\ funcs = <<>>
        /\ pc = "returned" => err # Nil

\* the operations that failed
Failed == {i \in DOMAIN tasks : tasks[i].err # Nil}

\* C9: AggregateConcurrent returns only once every operation has finished, and
\* what it returns holds exactly the causes of the operations that failed, in
\* the order the operations were submitted, whatever the order they finished in.
C9_AggregateInSubmissionOrder ==
    (call \in {"CollectLogs", "AggregateConcurrent"} /\ runnerRet.returned) =>
        /\ \A i \in DOMAIN funcs : tasks[i].pc = "done"
        /\ Len(tasks) = Len(funcs)
        /\ Len(runnerRet.err) = Cardinality(Failed)
        /\ \A k \in DOMAIN runnerRet.err :
              /\ runnerRet.err[k].op \in Failed
              /\ <<runnerRet.err[k]>> = tasks[runnerRet.err[k].op].err
              /\ k > 1 => runnerRet.err[k - 1].op < runnerRet.err[k].op

C9_Witness ==
    /\ call = "AggregateConcurrent" /\ runnerRet.returned
    /\ Len(funcs) = 3 /\ Failed = {1, 3}
    /\ errCh[1].op = 3 /\ errCh[2].op = 2 /\ errCh[3].op = 1

\* the positions of the channel that hold a failure
FailurePositions == {k \in DOMAIN errCh : errCh[k].err # Nil}

FirstFailurePosition ==
    CHOOSE k \in FailurePositions : \A j \in FailurePositions : k <= j

\* C10: what UntilErrorConcurrent returns to Provision is the cause of the
\* operation that failed first, whatever its place in the submitted list and
\* whatever the order in which the other operations finish.
C10_FirstFailureReturned ==
    (call = "Provision" /\ runnerRet.returned) =>
        IF FailurePositions = {}
        THEN runnerRet.err = Nil
        ELSE /\ runnerRet.err = errCh[FirstFailurePosition].err
             /\ runnerRet.err = tasks[errCh[FirstFailurePosition].op].err
             /\ err = runnerRet.err

C10_Witness ==
    /\ call = "Provision" /\ runnerRet.returned
    /\ Len(errCh) = 3
    /\ errCh[1].err = Nil
    /\ errCh[2].op = 3 /\ errCh[2].err # Nil
    /\ errCh[3].op = 1 /\ errCh[3].err # Nil
    /\ err = tasks[3].err

\* the results the operation i has sent on the runner's channel
ResultsOf(i) == {k \in DOMAIN errCh : errCh[k].op = i}

\* C11: UntilErrorConcurrent never interrupts an operation: whether or not it
\* has returned, an operation that has not finished can still take its next
\* step, and one that has finished did so by sending its own result, once;
\* the results that arrive after a failure was returned change nothing of what
\* was returned; and nil is returned only once every operation has succeeded.
C11_NoCancellation ==
    call = "Provision" =>
        /\ \A i \in DOMAIN tasks :
              /\ tasks[i].pc # "done" =>
                    ENABLED (GetPort(i) \/ CreateContainer(i) \/ ConnectNetwork(i))
              /\ tasks[i].pc = "done" =>
                    /\ Cardinality(ResultsOf(i)) = 1
                    /\ \A k \in ResultsOf(i) : errCh[k].err = tasks[i].err
        /\ (runnerRet.returned /\ runnerRet.err # Nil) =>
              /\ received \in DOMAIN errCh
              /\ runnerRet.err = errCh[received].err
              /\ err = runnerRet.err
        /\ (runnerRet.returned /\ runnerRet.err = Nil) =>
              /\ Len(tasks) = Len(funcs)
              /\ \A i \in DOMAIN tasks : tasks[i].pc = "done" /\ tasks[i].err = Nil

\* a failure was returned after the first result, and the two operations that
\* were still in flight then have finished since, one of them failing
C11_Witness ==
    /\ call = "Provision" /\ runnerRet.returned
    /\ received = 1 /\ Len(errCh) = 3
    /\ errCh[1].err # Nil /\ errCh[2].err = Nil /\ errCh[3].err # Nil
    /\ err = errCh[1].err
    /\ \A i \in DOMAIN tasks : tasks[i].pc = "done"

\* the commands of the kubeadm init action, in the order of its code; the
\* taint is removed only on a cluster of one node
RequiredSteps ==
    <<"kubeadm init", "inspect port", "cat admin.conf">>
        \o (IF Len(allNodes) = 1 THEN <<"remove taint">> ELSE <<>>)

IsPrefix(s, t) == Len(s) <= Len(t) /\ \A k \in DOMAIN s : s[k] = t[k]

EndEvents == {k \in DOMAIN status : status[k].event = "end"}

\* C12: the pipeline starts its steps in order, each once; the step index is
\* the number of steps that succeeded plus one; after a step error the state is
\* Failed for that step, no step can start, and the error is what the caller
\* gets; Succeeded comes only after every step succeeded; a run that can take
\* no further step is Succeeded or Failed. Within the kubeadm init action the
\* commands likewise run in the order of its code, each at most once, none
\* after the one that failed, and nil is returned only after all of them.
C12_PipelineInOrderFailFast ==
    /\ call = "Pipeline" =>
          /\ \A k \in DOMAIN pipeline.started : pipeline.started[k] = k
          /\ Len(pipeline.started) <= pipeline.steps
          /\ pipeline.state = "Running" =>
                /\ pipeline.stepIndex =
                      Len(pipeline.started) + (IF pipeline.running THEN 0 ELSE 1)
                /\ \A k \in EndEvents : status[k].ok
                /\ Cardinality(EndEvents) = pipeline.stepIndex - 1
          /\ pipeline.state = "Failed" =>
                /\ pipeline.stepIndex = Len(pipeline.started)
                /\ pipeline.cause = Error(pipeline.stepIndex, "step failed")
                /\ pc = "returned" /\ err = pipeline.cause
                /\ ~ENABLED StepStart
          /\ pipeline.state = "Succeeded" =>
                /\ Len(pipeline.started) = pipeline.steps
                /\ \A k \in EndEvents : status[k].ok
                /\ Cardinality(EndEvents) = pipeline.steps
                /\ pc = "returned" /\ err = Nil
          /\ ~ENABLED (PipelineStart \/ StepStart \/ StepEnd) =>
                pipeline.state \in {"Succeeded", "Failed"}
    /\ call = "Execute" =>
          /\ IsPrefix(effects, RequiredSteps)
          /\ (pc = "returned" /\ err = Nil) => effects = RequiredSteps
          /\ pc \notin {"start", "returned"} => err = Nil

\* the second of three steps failed: the third was never started
C12_Witness ==
    /\ call = "Pipeline" /\ pipeline.steps = 3
    /\ pipeline.state = "Failed" /\ pipeline.stepIndex = 2
    /\ pipeline.started = <<1, 2>>
    /\ err = Error(2, "step failed")

\* the cluster entries of a file, by name
ClustersOf(file) == Load(file).clusters

\* C13: whenever the kubeconfig path holds a file, the bundle read from the
\* node had the cluster entry of the cluster's name, the file has the same
\* entries and the same other fields as the bundle, and they are equal but for
\* the server of that entry, which is https://localhost:<hostPort> and not the
\* node's address; and the file is there once writeKubeConfig has returned nil.
C13_OnlyNamedServerRewritten ==
    call = "Execute" =>
        /\ dest # NoFile =>
              /\ bundle.kind = "kubeconfig"
              /\ ClusterName \in DOMAIN ClustersOf(bundle)
              /\ DOMAIN ClustersOf(dest) = DOMAIN ClustersOf(bundle)
              /\ ClustersOf(dest)[ClusterName].server = Localhost(portRet.port)
              /\ ClustersOf(dest)[ClusterName].server.host = "localhost"
              /\ ClustersOf(dest)[ClusterName].server.host # InternalServer.host
              /\ ClustersOf(dest)[ClusterName].ca = ClustersOf(bundle)[ClusterName].ca
              /\ \A n \in DOMAIN ClustersOf(bundle) \ {ClusterName} :
                    ClustersOf(dest)[n] = ClustersOf(bundle)[n]
              /\ Load(dest).user = Load(bundle).user
        /\ (pc = "taint" \/ (pc = "returned" /\ err = Nil)) => dest # NoFile

\* the bundle lists another cluster before the named one; the file written has
\* the port of the load balancer in the named entry
C13_Witness ==
    /\ call = "Execute" /\ pc = "returned" /\ err = Nil
    /\ bundle = KubeConfigFile(<<NamedCluster("other"), NamedCluster("kind")>>)
    /\ portRet.port = 40002
    /\ dest # NoFile
    /\ ClustersOf(dest)["kind"].server = [scheme |-> "https", host |-> "localhost", port |-> 40002]
    /\ ClustersOf(dest)["other"].server = InternalServer

\* C14, as stated: when the bundle cannot be read, cannot be parsed, or has no
\* cluster entry of the cluster's name, writeKubeConfig returns an error, which
\* Execute returns, and the kubeconfig path holds no file.
C14_ErrorAndNothingWritten ==
    (/\ call = "Execute"
     /\ bundle # NotRead
     /\ \/ bundle = ReadFailed
        \/ Load(bundle).err # Nil
        \/ ClusterName \notin DOMAIN ClustersOf(bundle))
        => (pc = "returned" /\ err # Nil /\ dest = NoFile)

\* C15: DeleteNodes of an empty list returns nil and the runtime was given no
\* command; of a list that is not empty, the runtime was given one command,
\* docker rm -f -v followed by the name of every node of the list, in order;
\* before DeleteNodes has run, none.
C15_OneForceRemoveOrNone ==
    call = "DeleteNodes" =>
        /\ pc = "start" => docker.log = <<>>
        /\ (pc = "returned" /\ Len(allNodes) = 0) =>
              err = Nil /\ docker.log = <<>>
        /\ (pc = "returned" /\ Len(allNodes) > 0) =>
              /\ Len(docker.log) = 1
              /\ docker.log[1].cmd = "docker"
              /\ SubSeq(docker.log[1].args, 1, 3) = <<"rm", "-f", "-v">>
              /\ Len(docker.log[1].args) = 3 + Len(allNodes)
              /\ \A i \in DOMAIN allNodes : docker.log[1].args[3 + i] = i

\* three nodes, all of them existing, removed by one command
C15_Witness ==
    /\ call = "DeleteNodes" /\ pc = "returned" /\ err = Nil
    /\ Len(allNodes) = 3
    /\ docker.log = <<[cmd |-> "docker", args |-> <<"rm", "-f", "-v", 1, 2, 3>>,
                        exit |-> 0, reason |-> ""]>>
    /\ docker.containers = {}

\* C16, as stated: unless the runtime itself is out of order, DeleteNodes
\* returns nil and none of the nodes it was given exists afterwards, whether
\* or not some of them were already gone.
C16_NeverFailsOnMissingNode ==
    (/\ call = "DeleteNodes" /\ pc = "returned"
     /\ \A k \in DOMAIN docker.log : docker.log[k].reason # "daemon error")
        => (err = Nil /\ docker.containers \cap DOMAIN allNodes = {})

\* the operations whose container was created: their docker run has succeeded
Created ==
    {i \in DOMAIN tasks :
        \/ tasks[i].pc = "created"
        \/ tasks[i].pc = "done" /\ tasks[i].err \in {Nil, Error(i, "docker network connect error")}}

\* C17: Provision undoes nothing. At every point of a run, also after it has
\* returned an operation's error, the containers that exist are exactly those
\* of the operations whose docker run succeeded; each was started detached
\* with the cluster label; and the only commands the runtime was ever given
\* are those that ensure the network, docker run, and the connections of a
\* created node to its further networks: nothing is removed, stopped or
\* relabelled.
C17_NoRollback ==
    call = "Provision" =>
        /\ docker.containers = Created
        /\ \A k \in DOMAIN docker.log :
              IF docker.log[k].args[1] = "run"
              THEN /\ docker.log[k].args[4] = "--detach"
                   /\ docker.log[k].args[6] = ClusterLabel
              ELSE /\ docker.log[k].args[1] = "network"
                   /\ docker.log[k].args[2] \in {"inspect", "create", "connect"}
        /\ \A i \in Created :
              \E k \in DOMAIN docker.log :
                  /\ docker.log[k].args[1] = "run"
                  /\ docker.log[k].args[3] = i /\ docker.log[k].exit = 0
        /\ (pc = "returned" /\ runnerRet.returned) => err = runnerRet.err

\* the load balancer failed, Provision returned its error, and the two control
\* planes, created before and after that return, exist
C17_Witness ==
    /\ call = "Provision" /\ pc = "returned" /\ err # Nil
    /\ Len(funcs) = 3 /\ received = 2 /\ Len(errCh) = 3
    /\ errCh[1].op = 2 /\ errCh[1].err = Nil
    /\ errCh[2].op = 1 /\ errCh[2].err # Nil
    /\ errCh[3].op = 3 /\ errCh[3].err = Nil
    /\ docker.containers = {2, 3}

Creates == {k \in DOMAIN docker.log : docker.log[k].args[2] = "create"}
Inspects == {k \in DOMAIN docker.log : docker.log[k].args[2] = "inspect"}

\* the network of the name was there before the first call
PreExisting == \E k \in DOMAIN docker.networks : docker.networks[k] = Network(NetworkName, 0)

\* ensure-network calls in a row leave one network, made at most once: after a
\* call that returned nil there is exactly one network of the name, no call
\* after it issued a create, no create at all was issued for a network that
\* was there before, and never more than one create was issued
IdempotentEnsure ==
    /\ Cardinality(Creates) <= 1
    /\ PreExisting => Creates = {}
    /\ \A k \in Creates : k <= 2
    /\ (Len(effects) >= 1 /\ (pc = "start" \/ err = Nil)) =>
          Cardinality(NetworksNamed(docker, NetworkName)) = 1

C20_InternalEndpointIsNameAndFixedPort ==
    (call = "GetAPIServerInternalEndpoint" /\ pc = "returned") =>
        /\ Len(docker.log) = 1 /\ docker.log[1].args[1] = "ps"
        /\ err = Nil =>
              /\ EndpointNode # 0
              /\ endpoint.host = EndpointNode
              /\ endpoint.port = 6443
              /\ endpoint.port # allNodes[EndpointNode].port
        /\ err # Nil =>
              /\ endpoint = NoEndpoint
              /\ err[1].msg \in {"failed to list nodes", "failed to get api server endpoint"}
              /\ err[1].msg = "failed to list nodes" <=> docker.log[1].exit # 0

\* two control planes behind a load balancer: the endpoint is the load
\* balancer's name and 6443, not its mapped port 40002
C20_Witness ==
    /\ call = "GetAPIServerInternalEndpoint" /\ pc = "returned" /\ err = Nil
    /\ Len(allNodes) = 3
    /\ allNodes[1].role = "control-plane" /\ allNodes[2].role = "control-plane"
    /\ allNodes[3] = [role |-> "external-load-balancer", port |-> 40002]
    /\ endpoint = [host |-> 3, port |-> 6443]

\* the inspections GetAPIServerEndpoint made, as places of the runtime's log
InspectionsMade == {k \in DOMAIN docker.log : docker.log[k].args[1] = "inspect"}

\* the inspection of the label printed exactly one line, and not an empty one
LabelReported ==
    /\ Len(docker.log) >= 2
    /\ docker.log[2].args[3] = LabelFormat
    /\ docker.log[2].exit = 0
    /\ Len(docker.log[2].out) = 1
    /\ docker.log[2].out[1] # NoEndpoint

\* the inspection of the port mappings printed one line of two parts
MappingReported ==
    /\ Len(docker.log) = 3
    /\ docker.log[3].args[3] = PortsFormat
    /\ docker.log[3].exit = 0
    /\ Len(docker.log[3].out) = 1
    /\ Len(docker.log[3].out[1]) = 2

\* C21: GetAPIServerEndpoint inspects the endpoint node only (the load balancer
\* when there is one, else the bootstrap control plane). When the inspection
\* of the desktop label prints exactly one line that is not empty, that line
\* is returned as it is and the port mappings are not inspected; otherwise,
\* when the inspection of the mappings prints the first host mapping of the
\* API-server port, its HostIp and HostPort joined are returned, the HostPort
\* being the host port of the endpoint node.
C21_LabelVerbatimElseFirstMapping ==
    (call = "GetAPIServerEndpoint" /\ pc = "returned") =>
        /\ \A k \in InspectionsMade :
              EndpointNode # 0 /\ docker.log[k].args[4] = EndpointNode
        /\ LabelReported =>
              /\ err = Nil
              /\ endpoint = docker.log[2].out[1]
              /\ InspectionsMade = {2}
        /\ (~LabelReported /\ MappingReported) =>
              /\ err = Nil
              /\ endpoint.host = docker.log[3].out[1][1]
              /\ endpoint.port = docker.log[3].out[1][2]
              /\ endpoint.port = allNodes[EndpointNode].port
        /\ err = Nil => (LabelReported \/ MappingReported)

\* two control planes behind a load balancer, no desktop label (an empty
\* line): the endpoint is the load balancer's mapping, not a control plane's
C21_Witness ==
    /\ call = "GetAPIServerEndpoint" /\ pc = "returned" /\ err = Nil
    /\ Len(allNodes) = 3
    /\ allNodes[1] = [role |-> "control-plane", port |-> 40001]
    /\ allNodes[2] = [role |-> "external-load-balancer", port |-> 40002]
    /\ allNodes[3].role = "control-plane"
    /\ Len(docker.log) = 3
    /\ docker.log[2].out = <<NoEndpoint>>
    /\ docker.log[3].args[4] = 2
    /\ endpoint = [host |-> "0.0.0.0", port |-> 40002]

\* C25: in GetAPIServerEndpoint an output of the port-mapping inspection that
\* is not one line, or whose line is not two tab-separated parts, gives an
\* error that carries no cause and whose message is not that of an invocation
\* failure; a command that failed gives "failed to get api server port" with
\* the command's error as its cause; and with any error no endpoint is returned.
C25_ShapeErrorsApartFromInvocationFailures ==
    (call = "GetAPIServerEndpoint" /\ pc = "returned") =>
        /\ err # Nil => endpoint = NoEndpoint
        /\ \A k \in InspectionsMade :
              docker.log[k].exit # 0 =>
                  /\ k = Len(docker.log)
                  /\ err = Wrap(RunError(docker.log[k].args, docker.log[k].exit),
                                "failed to get api server port")
        /\ (~LabelReported /\ Len(docker.log) = 3 /\ docker.log[3].exit = 0) =>
              /\ Len(docker.log[3].out) # 1 =>
                    err = Error(0, "network details should only be one line")
              /\ (Len(docker.log[3].out) = 1 /\ Len(docker.log[3].out[1]) # 2) =>
                    err = Error(0, "network details should only be two parts")
              /\ err # Nil =>
                    /\ "cause" \notin DOMAIN err[1]
                    /\ err[1].msg # "failed to get api server port"

\* the mapping inspection printed one line of three parts: an error of shape
C25_Witness ==
    /\ call = "GetAPIServerEndpoint" /\ pc = "returned"
    /\ Len(docker.log) = 3 /\ docker.log[3].exit = 0
    /\ Len(docker.log[3].out) = 1 /\ Len(docker.log[3].out[1]) = 3
    /\ err = Error(0, "network details should only be two parts")
    /\ endpoint = NoEndpoint

\* C27, as stated: the error a Provider operation returns for a command of the
\* runtime that failed carries the command's error as its cause and the name
\* of the operation: "failed to list nodes" from ListNodes, "failed to list
\* clusters" from ListClusters, "failed to delete nodes" from DeleteNodes.
C27_FailureNamedAfterOperation ==
    (call \in {"ListNodes", "ListClusters", "DeleteNodes"} /\ pc = "returned" /\ err # Nil) =>
        /\ docker.log[Len(docker.log)].exit # 0
        /\ err[1].cause = RunError(docker.log[Len(docker.log)].args, 1)
        /\ err[1].msg = (IF call = "ListNodes" THEN "failed to list nodes"
                         ELSE IF call = "ListClusters" THEN "failed to list clusters"
                         ELSE "failed to delete nodes")

\* what has run on a node so far
Ran(step) == \E k \in DOMAIN effects : effects[k] = step

StartEvents == {k \in DOMAIN status : status[k].event = "start"}

\* C22, as stated: on a cluster of one node the taint is removed before the
\* API port is resolved and before the kubeconfig is read and written, so
\* whenever one of these has happened the taint removal has run.
C22_TaintRemovedBeforeKubeconfig ==
    (call = "Execute" /\ Len(allNodes) = 1) =>
        ((portRet.called \/ Ran("cat admin.conf") \/ dest # NoFile) => Ran("remove taint"))

\* C22, amended: kubeadm init runs first; then the API port is resolved and
\* the kubeconfig written; the taint removal comes last and on a cluster of
\* one node only, so it never runs before the kubeconfig has been written,
\* and a successful return on one node has run it.
C22_TaintRemovedAfterKubeconfig ==
    call = "Execute" =>
        /\ effects # <<>> => effects[1] = "kubeadm init"
        /\ portRet.called => Ran("kubeadm init")
        /\ Ran("cat admin.conf") => portRet.called /\ portRet.err = Nil
        /\ dest # NoFile => Ran("cat admin.conf")
        /\ Ran("remove taint") =>
              /\ Len(allNodes) = 1
              /\ dest # NoFile
              /\ effects[Len(effects)] = "remove taint"
        /\ (pc = "returned" /\ err = Nil) => (Ran("remove taint") <=> Len(allNodes) = 1)

\* one node: the taint was removed after the kubeconfig had been written
C22_Witness ==
    /\ call = "Execute" /\ Len(allNodes) = 1
    /\ pc = "returned" /\ err = Nil /\ dest # NoFile
    /\ effects = <<"kubeadm init", "inspect port", "cat admin.conf", "remove taint">>

\* C23: the start event of the kubeadm init action is reported once, before
\* any command runs on a node; when the action is over, by a return or by a
\* panic, one end event follows it, whose outcome is success exactly when
\* Execute returned nil; until then no end event is reported.
C23_OneStartThenOneEnd ==
    call = "Execute" =>
        /\ pc = "start" => status = <<>> /\ effects = <<>>
        /\ pc # "start" => StartEvents = {1}
        /\ pc \notin {"start", "returned", "panicked"} => Len(status) = 1
        /\ pc \in {"returned", "panicked"} =>
              /\ Len(status) = 2
              /\ status[2].event = "end"
              /\ status[2].ok <=> (pc = "returned" /\ err = Nil)

\* every command succeeded: the one end event reports success
C23_Witness ==
    /\ call = "Execute" /\ pc = "returned" /\ err = Nil
    /\ Ran("cat admin.conf")
    /\ status = <<[event |-> "start", ok |-> TRUE], [event |-> "end", ok |-> TRUE]>>

\* the failure Execute returns for a command, named m
FailedWith(m) == err # Nil /\ err[1].msg = m

\* C28: when kubeadm init fails Execute returns its error, wrapped, and
\* nothing else has run: the port is not resolved, admin.conf is not read,
\* no kubeconfig is written, no taint removed; when the port resolution or
\* the kubeconfig fails, the taint removal has not run and, for the port, no
\* kubeconfig was read or written; no command runs twice and nothing runs
\* after the return.
C28_FailFastInsideExecute ==
    call = "Execute" =>
        /\ FailedWith("failed to init node with kubeadm") =>
              /\ pc = "returned"
              /\ err[1].cause = RunError(kubeadmInitArgs, 1)
              /\ effects = <<"kubeadm init">>
              /\ ~portRet.called /\ bundle = NotRead /\ dest = NoFile
        /\ FailedWith("failed to get kubeconfig from node") =>
              /\ pc = "returned"
              /\ ~Ran("remove taint")
              /\ portRet.err # Nil =>
                    /\ err[1].cause = portRet.err
                    /\ bundle = NotRead /\ dest = NoFile
        /\ FailedWith("failed to remove master taint") =>
              pc = "returned" /\ effects[Len(effects)] = "remove taint"
        /\ \A j, k \in DOMAIN effects : effects[j] = effects[k] => j = k
        /\ pc = "returned" =>
              ~ENABLED (KubeadmInit \/ GetAPIServerPort \/ WriteKubeConfig \/ RemoveTaint)

\* kubeadm init failed on a cluster of several nodes
C28_Witness ==
    /\ call = "Execute" /\ Len(allNodes) > 1
    /\ pc = "returned" /\ FailedWith("failed to init node with kubeadm")
    /\ effects = <<"kubeadm init">> /\ ~portRet.called

\* Provision failed in one of its two ensures
EnsureFailed ==
    err # Nil /\ err[1].msg \in {"failed to pull image", "failed to ensure docker network"}

\* C29: Provision pulls the images, then ensures the network, then plans,
\* then hands the operations to the runner. The status 'Preparing nodes' is
\* started after both ensures succeeded, with the planning; it is in progress
\* until Provision returns and is then ended once, with success exactly when
\* nil is returned, a planning failure included. When an ensure fails no
\* status event is reported, nothing is planned and no container is created.
C29_PreparingNodesAfterEnsures ==
    call = "Provision" =>
        /\ pc # "start" => effects[1] = "image pull"
        /\ pc \notin {"start", "images ensured", "returned"} =>
              /\ Len(effects) >= 2 /\ effects[2] = "network ensure"
              /\ err = Nil
        /\ plan.called =>
              /\ Len(effects) >= 2 /\ effects[2] = "network ensure"
              /\ ~EnsureFailed
              /\ StartEvents = {1}
        /\ tasks # <<>> => plan.called /\ plan.err = Nil /\ funcs = plan.funcs
        /\ pc \in {"planned", "waiting"} => status = <<[event |-> "start", ok |-> TRUE]>>
        /\ (pc = "returned" /\ plan.called) =>
              status = <<[event |-> "start", ok |-> TRUE], [event |-> "end", ok |-> (err = Nil)]>>
        /\ ~plan.called =>
              /\ status = <<>>
              /\ tasks = <<>> /\ docker.containers = {}
              /\ pc = "returned" => EnsureFailed

\* the planning failed after both ensures: the status was started and ended
\* with failure, and nothing was created
C29_Witness ==
    /\ call = "Provision" /\ pc = "returned"
    /\ plan.called /\ plan.err # Nil /\ err = plan.err
    /\ effects[1] = "image pull" /\ effects[2] = "network ensure"
    /\ status = <<[event |-> "start", ok |-> TRUE], [event |-> "end", ok |-> FALSE]>>
    /\ docker.containers = {}

\* the operations that hold a host port the host allocated for them
AutoAllocated == {i \in DOMAIN tasks : tasks[i].pc = "port" /\ funcs[i].port = 0}

\* C24, as stated: once the operations are handed to the runner no operation
\* of a load balancer or of a control plane still has its host port to
\* resolve, and no two operations hold the same host port allocated by the
\* host on the same listen address.
C24_PortsResolvedBeforeSubmission ==
    (call = "Provision" /\ pc \in {"waiting", "returned"}) =>
        /\ \A i \in DOMAIN tasks :
              funcs[i].kind \in {ExternalLoadBalancerNodeRoleValue, ControlPlaneRole} =>
                  tasks[i].pc # "ready"
        /\ \A i, j \in AutoAllocated :
              (i # j /\ funcs[i].address = funcs[j].address) =>
                  tasks[i].hostPort # tasks[j].hostPort

\* the docker run commands issued for the container name, as places of the log
RunsOf(name) ==
    {k \in DOMAIN docker.log : docker.log[k].args[1] = "run" /\ docker.log[k].args[3] = name}

\* how many of the container's connections were asked for up to place c
Rank(name, c) == Cardinality({k \in ConnectsOf(docker, name) : k <= c})

\* C26: the docker run of a node names its first declared network and no
\* other; the further networks are connected one command each, in declared
\* order, each after a docker run of the node that succeeded; a connection
\* that failed is the node's last and is the failure of its operation; an
\* operation that succeeded connected every further network; a node that
\* declares at most one network, a load balancer, and a node whose docker
\* run failed, are never connected.
C26_ExtraNetworksConnectedAfterCreation ==
    call = "Provision" =>
        \A i \in DOMAIN tasks :
            LET ns == NetworksOf(i)
                conns == ConnectsOf(docker, i) IN
            /\ \A k \in RunsOf(i) :
                  docker.log[k].args =
                      runArgs(i) \o (IF ns = <<>> THEN <<>> ELSE <<"--network", ns[1]>>)
            /\ Cardinality(RunsOf(i)) <= 1
            /\ \A c \in conns :
                  /\ \E k \in RunsOf(i) : k < c /\ docker.log[k].exit = 0
                  /\ Rank(i, c) + 1 \in DOMAIN ns
                  /\ docker.log[c].args[3] = ns[Rank(i, c) + 1]
                  /\ docker.log[c].exit # 0 =>
                        /\ Rank(i, c) = Cardinality(conns)
                        /\ tasks[i].pc = "done"
                        /\ tasks[i].err = Error(i, "docker network connect error")
            /\ Len(ns) <= 1 => conns = {}
            /\ (tasks[i].pc = "done" /\ tasks[i].err = Nil /\ Len(ns) > 1) =>
                  Cardinality(conns) = Len(ns) - 1
            /\ (tasks[i].pc = "done" /\ tasks[i].err = Error(i, "docker run error")) =>
                  conns = {}

\* a worker declaring net1, net0, net1: created on net1, connected to net0,
\* and the connection to net1 failed, which is the failure Provision returns
C26_Witness ==
    /\ call = "Provision" /\ pc = "returned"
    /\ cfg.nodes = <<[role |-> WorkerRole, networks |-> <<"net1", "net0", "net1">>]>>
    /\ Len(docker.log) >= 3
    /\ LET n == Len(docker.log) IN
          /\ docker.log[n - 2].args = runArgs(1) \o <<"--network", "net1">>
          /\ docker.log[n - 2].exit = 0
          /\ docker.log[n - 1].args = <<"network", "connect", "net0", 1>>
          /\ docker.log[n - 1].exit = 0
          /\ docker.log[n].args = <<"network", "connect", "net1", 1>>
          /\ docker.log[n].exit # 0
    /\ err = Error(1, "docker network connect error")
    /\ docker.containers = {1}

\* the phases of the create-worker action that ran all their steps
Completed == {effects[k] : k \in DOMAIN effects}

\* C30, as stated: in the create-worker action the event after a phase's
\* start event is the end event of that same phase, so no phase starts while
\* another is in progress; no phase is left in progress when Execute has
\* returned; and a phase that ran all its steps is ended with success.
C30_PhasesNeverOverlap ==
    call = "CreateWorker" =>
        /\ \A k \in DOMAIN status :
              (status[k].event = "start" /\ k < Len(status)) =>
                  /\ status[k + 1].event = "end"
                  /\ status[k + 1].phase = status[k].phase
        /\ pc = "returned" => ~InProgress(status)
        /\ \A label \in Completed :
              \E k \in DOMAIN status :
                  status[k] = [event |-> "end", ok |-> TRUE, phase |-> label]

====
